---- MODULE Spec2Model ----
(***************************************************************************)
(* Blockchain RPC Compatibility Auditor: the audit scripts as state        *)
(* machines.  One run of one auditor class is a walk through its stages    *)
(* (initialize, the test* methods, the verdict/recommendation step, the    *)
(* report write); the chain answers every probe nondeterministically.      *)
(* The hard-fork classifiers (the determineEVMVersion variants) are pure   *)
(* operators over the flag map.                                            *)
(***************************************************************************)
EXTENDS Integers, FiniteSets, Sequences, TLC

VARIABLES
  auditor,            \* the class whose run is modelled
  pc,                 \* the next stage of the run ("done"/"raised" when over)
  signer,             \* a private key was supplied (this.signer is set)
  initResult,         \* outcome of initialize(): "none" | "ok" | "failed"
  connection,         \* results.connection
  probes,             \* log of the calls issued so far: probe name -> outcome
  deviations,         \* calls so far answered against the common answer of their stage
  eips,               \* the flag map of the run: feature id -> supported
  errors,             \* feature ids whose entry carries an error message
  escaped,            \* probes whose error left the probe's own try/catch
  latestFeatures,     \* results.latestFeatures: feature id -> supported
  contractDeployment, \* results.contractDeployment / results.deployment
  rpcMethods,         \* results.rpcMethods entries kept one by one: method -> supported
  rpcCompatibility,   \* [supported |-> n, total |-> m], total = 0 when unset
  finality,           \* results.finality: "unset" | "stable" | "unstable" | "error"
  erc4337,            \* results.erc4337: "unset" | "found" | "notFound"
  testResults,        \* ComprehensiveSmartContractTest: test name -> result
  individualTests,    \* results.individualTests: test name -> passed
  errorTests,         \* results.errorTests: test name -> result
  gasTests,           \* results.gasTests was recorded
  calls,              \* provider calls issued so far for each feature or method: name -> count
  comparison,         \* results of compareChains: chain name -> "tested" | "error"
  heap,               \* the results objects constructed so far, by order of construction
  thisResults,        \* the auditor's this.results: an index of heap, 0 before construction
  handed,             \* what the runs returned: the object and its content at the return
  balance,            \* the signer's balance, in thousandths of an ETH
  txSent,             \* a deployment transaction was broadcast
  refs,               \* references between the objects of deploymentInfo: <<holder, held>>
  compatibilityScore, \* the compatibility score of the contract tests, -1 before it is computed
  chainInfoChainId,   \* results.chainInfo.chainId, 0 before the connection
  envFile,            \* the .env file as its "\n"-separated pieces, << >> when there is no file
  envContent,         \* what updateEnvFile last read from the .env file
  selectedChain,      \* process.argv[2] of the last run of the chain selector, "" before it
  classified,         \* determineEVMVersion() has assigned results.evmVersion in this run
  evmVersion,         \* the hard-fork label of the run
  written,            \* the report file was written to disk
  returned,           \* what the run handed its caller: "nothing" | "results" | "undefined"
  rpcScore,           \* results.rpcCompatibility.score, -1 when unset
  statements,         \* what the verdict, the recommendations and the printed report say
  contractResults,    \* ComprehensiveEVMTest.testResults: mapping(string => bool)
  testEvents,         \* the TestEvent logs emitted: <<testName, result>>
  totalTests,         \* ComprehensiveEVMTest.totalTests
  passedTests,        \* ComprehensiveEVMTest.passedTests
  failedTests,        \* ComprehensiveEVMTest.failedTests
  chain,              \* two runs on one chain: what the chain answers to each call
  firstRun            \* two runs on one chain: what the first run reported

vars == << auditor, pc, signer, initResult, connection, probes, deviations, eips,
           errors, escaped,
           latestFeatures, contractDeployment, rpcMethods, rpcCompatibility,
           finality, erc4337, testResults, individualTests, errorTests, gasTests,
           evmVersion, calls, comparison, heap, thisResults, handed,
           balance, txSent, refs, compatibilityScore,
           chainInfoChainId, envFile, envContent, selectedChain,
           classified, written, returned, rpcScore, statements,
           contractResults, testEvents, totalTests, passedTests, failedTests,
           chain, firstRun >>

(***************************************************************************)
(* JavaScript objects used as maps                                         *)
(***************************************************************************)
EmptyMap == [k \in {} |-> FALSE]

\* obj[k] = v
Put(obj, k, v) == [x \in (DOMAIN obj) \cup {k} |-> IF x = k THEN v ELSE obj[x]]

\* truthiness of obj[k]: a missing key reads as undefined
Truthy(obj, k) == k \in DOMAIN obj /\ obj[k]

(***************************************************************************)
(* The hard-fork classifiers                                               *)
(***************************************************************************)
\* DefinitiveAuditor keeps PUSH0 in shanghaiFeatures and the London flags in
\* londonFeatures; the model keys both by EIP id (PUSH0 is EIP-3855).
DefinitiveAuditor_determineEVMVersion(e) ==
  IF Truthy(e, "EIP-3855") THEN "shanghai"
  ELSE IF Truthy(e, "EIP-1559") /\ Truthy(e, "EIP-3198") THEN "london"
  ELSE "unknown"

QuickAdvancedAuditor_determineEVMVersion(e) ==
  IF Truthy(e, "EIP-3855") THEN "shanghai"
  ELSE IF Truthy(e, "EIP-1559") /\ Truthy(e, "EIP-3198") THEN "london"
  ELSE IF Truthy(e, "EIP-1344") THEN "istanbul"
  ELSE "unknown"

AdvancedEVMAuditor_determineEVMVersion(e) ==
  IF Truthy(e, "EIP-3855") THEN "shanghai"
  ELSE IF Truthy(e, "EIP-1559") /\ Truthy(e, "EIP-3198") THEN "london"
  ELSE IF Truthy(e, "EIP-2718") /\ Truthy(e, "EIP-2930") THEN "berlin"
  ELSE IF Truthy(e, "EIP-1344") THEN "istanbul"
  ELSE "unknown"

AdvancedEVMAuditorFixed_determineEVMVersion(e) ==
  IF Truthy(e, "EIP-3855") THEN "shanghai"
  ELSE IF Truthy(e, "EIP-1559") /\ Truthy(e, "EIP-3198") THEN "london"
  ELSE IF Truthy(e, "EIP-2718") /\ Truthy(e, "EIP-2930") THEN "berlin"
  ELSE IF Truthy(e, "EIP-1344") THEN "istanbul"
  ELSE "unknown"

MultiChainAuditor_determineEVMVersion(e) ==
  IF Truthy(e, "EIP-3855") /\ Truthy(e, "EIP-3860") /\ Truthy(e, "EIP-3651") THEN "shanghai"
  ELSE IF Truthy(e, "EIP-1559") /\ Truthy(e, "EIP-3198") THEN "london"
  ELSE IF Truthy(e, "EIP-2718") /\ Truthy(e, "EIP-2930") THEN "berlin"
  ELSE IF Truthy(e, "EIP-1344") THEN "istanbul"
  ELSE "unknown"

\* the earlier AdvancedEVMAuditor (advanced features audit)
AdvancedEVMAuditorV1_determineEVMVersion(e) ==
  IF Truthy(e, "EIP-3855") /\ Truthy(e, "EIP-3860") /\ Truthy(e, "EIP-3651") THEN "shanghai"
  ELSE IF Truthy(e, "EIP-1559") /\ Truthy(e, "EIP-3198") THEN "london"
  ELSE IF Truthy(e, "EIP-2718") /\ Truthy(e, "EIP-2930") THEN "berlin"
  ELSE IF Truthy(e, "EIP-1344") THEN "istanbul"
  ELSE "unknown"

\* debugEthereumMainnet counts features: block.baseFeePerGas (the EIP-1559
\* evidence) and block.miner (the EIP-3651 evidence) count for shanghai,
\* block.baseFeePerGas for london; berlin and istanbul are assumed.
debugEthereumMainnet_evmVersion(e) ==
  LET shanghaiFeatures == (IF Truthy(e, "EIP-1559") THEN 1 ELSE 0)
                        + (IF Truthy(e, "EIP-3651") THEN 1 ELSE 0)
      londonFeatures   == IF Truthy(e, "EIP-1559") THEN 1 ELSE 0
      berlinFeatures   == 2
      istanbulFeatures == 1
  IN  IF shanghaiFeatures >= 2 THEN "shanghai"
      ELSE IF londonFeatures >= 1 THEN "london"
      ELSE IF berlinFeatures >= 2 THEN "berlin"
      ELSE IF istanbulFeatures >= 1 THEN "istanbul"
      ELSE "unknown"

\* ComprehensiveSmartContractTest.generateComprehensiveReport, over testResults
ComprehensiveSmartContractTest_evmVersion(t) ==
  IF Truthy(t, "PUSH0_OPCODE") THEN "shanghai"
  ELSE IF Truthy(t, "EIP_1559") THEN "london"
  ELSE IF Truthy(t, "EIP_2718") THEN "berlin"
  ELSE IF Truthy(t, "EIP_1344") THEN "istanbul"
  ELSE "unknown"

(***************************************************************************)
(* The classifiers applied to every flag assignment                        *)
(***************************************************************************)
ClassifierFlags == {"EIP-3855", "EIP-1559", "EIP-3198", "EIP-2718", "EIP-2930",
                    "EIP-1344", "EIP-3651", "EIP-3860"}

Classifiers == {"DefinitiveAuditor", "QuickAdvancedAuditor", "AdvancedEVMAuditor",
                "AdvancedEVMAuditorFixed", "MultiChainAuditor",
                "AdvancedEVMAuditorV1", "debugEthereumMainnet"}

NoRpc == [supported |-> 0, total |-> 0]

\* the ComprehensiveEVMTest contract as deployed: empty mapping, no log,
\* counters at zero
NoContract ==
  /\ contractResults = EmptyMap
  /\ testEvents = {}
  /\ totalTests = 0
  /\ passedTests = 0
  /\ failedTests = 0

\* the fields the constructors set
FreshResults ==
  /\ initResult = "none"
  /\ connection = FALSE
  /\ probes = EmptyMap
  /\ deviations = 0
  /\ errors = {}
  /\ escaped = {}
  /\ latestFeatures = EmptyMap
  /\ contractDeployment = "unset"
  /\ rpcMethods = EmptyMap
  /\ rpcCompatibility = NoRpc
  /\ finality = "unset"
  /\ erc4337 = "unset"
  /\ testResults = EmptyMap
  /\ individualTests = EmptyMap
  /\ errorTests = EmptyMap
  /\ gasTests = FALSE
  /\ evmVersion = "unknown"
  /\ classified = FALSE
  /\ calls = EmptyMap
  /\ comparison = EmptyMap
  /\ heap = << >>
  /\ thisResults = 0
  /\ handed = << >>
  /\ txSent = FALSE
  /\ refs = {}
  /\ compatibilityScore = -1
  /\ chainInfoChainId = 0
  /\ written = FALSE
  /\ returned = "nothing"
  /\ rpcScore = -1
  /\ statements = {}
  /\ NoContract

\* a single run: the answers of the chain are drawn call by call
SingleRun ==
  /\ chain = EmptyMap
  /\ balance = 0
  /\ firstRun = EmptyMap
  /\ envFile = << >>
  /\ envContent = << >>
  /\ selectedChain = ""

InitClassify ==
  /\ auditor \in Classifiers
  /\ eips \in [ClassifierFlags -> BOOLEAN]
  /\ pc = "classify"
  /\ signer = FALSE
  /\ FreshResults
  /\ SingleRun

Classified(a, label) ==
  /\ auditor = a
  /\ pc = "classify"
  /\ classified' = TRUE
  /\ evmVersion' = label
  /\ pc' = "classified"
  /\ UNCHANGED << auditor, signer, initResult, connection, probes, deviations,
                  eips, errors, escaped, latestFeatures, contractDeployment,
                  rpcMethods, rpcCompatibility, finality, erc4337, testResults,
                  individualTests, errorTests, gasTests, calls, comparison,
                  heap, thisResults, handed, balance, txSent, refs,
                  compatibilityScore, chainInfoChainId, envFile, envContent,
                  selectedChain, written, returned, chain, firstRun, rpcScore,
                  statements, contractResults, testEvents, totalTests,
                  passedTests, failedTests >>

ClassifyDefinitive == Classified("DefinitiveAuditor", DefinitiveAuditor_determineEVMVersion(eips))
ClassifyQuick == Classified("QuickAdvancedAuditor", QuickAdvancedAuditor_determineEVMVersion(eips))
ClassifyAdvanced == Classified("AdvancedEVMAuditor", AdvancedEVMAuditor_determineEVMVersion(eips))
ClassifyFixed == Classified("AdvancedEVMAuditorFixed", AdvancedEVMAuditorFixed_determineEVMVersion(eips))
ClassifyMultiChain == Classified("MultiChainAuditor", MultiChainAuditor_determineEVMVersion(eips))
ClassifyV1 == Classified("AdvancedEVMAuditorV1", AdvancedEVMAuditorV1_determineEVMVersion(eips))
ClassifyDebug == Classified("debugEthereumMainnet", debugEthereumMainnet_evmVersion(eips))

NextClassify ==
  \/ ClassifyDefinitive
  \/ ClassifyQuick
  \/ ClassifyAdvanced
  \/ ClassifyFixed
  \/ ClassifyMultiChain
  \/ ClassifyV1
  \/ ClassifyDebug

SpecClassify == InitClassify /\ [][NextClassify]_vars

(***************************************************************************)
(* Probes: what the chain answers and what the try/catch around a call     *)
(* records                                                                 *)
(***************************************************************************)
\* a call either resolves or rejects (JSON-RPC error, revert, transport error)
CallOutcomes == {"ok", "fail"}

\* a call whose answer is also tested (baseFeePerGas > 0, chainId > 0):
\* "absent" is an answer that fails the test
ValueOutcomes == {"ok", "absent", "fail"}

\* the same call with no catch around it: the rejection goes to the caller
\* and no entry is written
TryProbeNoCatch(outcome) ==
  [supported |-> outcome = "ok", error |-> FALSE, raised |-> outcome = "fail"]

\* try { await call; entry = { supported: <test> } }
\* catch (error) { entry = { supported: false, error: error.message } }
TryProbe(outcome) ==
  [supported |-> outcome = "ok", error |-> outcome = "fail", raised |-> FALSE]

\* the entries a test method records, folded into the flag map, the error
\* set and the probe log; ps is a set of <<key, outcome>>
Keys(ps) == {p[1] : p \in ps}
OutcomeOf(ps, k) == (CHOOSE p \in ps : p[1] = k)[2]
RecordFlags(obj, ps) ==
  [k \in (DOMAIN obj) \cup Keys(ps) |->
     IF k \in Keys(ps) THEN TryProbe(OutcomeOf(ps, k)).supported ELSE obj[k]]
RecordErrors(errs, ps) ==
  (errs \ Keys(ps)) \cup {k \in Keys(ps) : TryProbe(OutcomeOf(ps, k)).error}
RecordProbes(log, ps) ==
  [k \in (DOMAIN log) \cup Keys(ps) |->
     IF k \in Keys(ps) THEN OutcomeOf(ps, k) ELSE log[k]]
RecordEscaped(esc, ps) ==
  esc \cup {k \in Keys(ps) : TryProbe(OutcomeOf(ps, k)).raised}

\* Object.values(testResults).filter(Boolean).length over Object.keys(...).length
PassedOf(t) == [supported |-> Cardinality({k \in DOMAIN t : t[k]}),
                total |-> Cardinality(DOMAIN t)]

\* Math.round((supported / total) * 100)
Score(r) == IF r.total = 0 THEN 0 ELSE (200 * r.supported + r.total) \div (2 * r.total)

(***************************************************************************)
(* The answers of the chain to the calls of one long stage                 *)
(***************************************************************************)
\* the calls of one long stage get a common answer (the node serves them or
\* it does not), except for the deviating ones; a run sees at most
\* MaxDeviations deviating calls
MaxDeviations == 1

Flip(o) == IF o = "ok" THEN "fail" ELSE "ok"

Deviating(keys) == {d \in SUBSET keys : Cardinality(d) <= MaxDeviations - deviations}

Answers(keys, base, dev) == [k \in keys |-> IF k \in dev THEN Flip(base) ELSE base]

\* getBlock("latest") answered: the block carries baseFeePerGas > 0 or not
BlockAnswer(o, hasBaseFee) == IF o = "ok" /\ ~hasBaseFee THEN "absent" ELSE o

(***************************************************************************)
(* initialize(): the connection step                                       *)
(***************************************************************************)
\* initialize() of DefinitiveAuditor, QuickAdvancedAuditor, AdvancedEVMAuditor
\* and AdvancedEVMAuditorFixed catches the error and returns false; the
\* error may come from any of its steps
InitializeReturning(ok) ==
  /\ initResult' = IF ok THEN "ok" ELSE "failed"
  /\ IF ok
       THEN /\ signer' = signer
            /\ connection' = TRUE
       ELSE \/ /\ signer               \* new ethers.Wallet(...) threw
               /\ signer' = FALSE
               /\ connection' = FALSE
            \/ /\ signer' = signer     \* getBlockNumber or eth_chainId rejected
               /\ connection' = FALSE
            \/ /\ signer               \* getBalance rejected
               /\ signer' = signer
               /\ connection' = TRUE

(***************************************************************************)
(* DefinitiveAuditor.runDefinitiveAudit                                    *)
(***************************************************************************)
\* the return value of initialize() is not looked at
DefinitiveInitialize ==
  /\ auditor = "DefinitiveAuditor" /\ pc = "initialize"
  /\ \E ok \in BOOLEAN : InitializeReturning(ok)
  /\ pc' = "testShanghaiFeatures"
  /\ UNCHANGED << auditor, probes, deviations, eips, errors, escaped,
                  latestFeatures, contractDeployment, rpcMethods,
                  rpcCompatibility, finality, erc4337, testResults,
                  individualTests, errorTests, gasTests, evmVersion, classified,
                  calls, comparison, heap, thisResults, handed, balance, txSent,
                  refs, compatibilityScore, chainInfoChainId, envFile,
                  envContent, selectedChain, written, returned, chain, firstRun,
                  rpcScore, statements, contractResults, testEvents, totalTests,
                  passedTests, failedTests >>

DefinitiveTestShanghaiFeatures ==
  /\ auditor = "DefinitiveAuditor" /\ pc = "testShanghaiFeatures"
  /\ \E push0 \in CallOutcomes, mcopy \in CallOutcomes,
        transient \in CallOutcomes, beacon \in CallOutcomes :
       LET ps == { <<"EIP-3855", push0>>, <<"MCOPY", mcopy>>,
                   <<"TransientStorage", transient>>, <<"BeaconRoot", beacon>> }
       IN  /\ eips' = RecordFlags(eips, ps)
           /\ errors' = RecordErrors(errors, ps)
           /\ probes' = RecordProbes(probes, ps)
           /\ escaped' = RecordEscaped(escaped, ps)
           /\ pc' = "testLondonFeatures"
  /\ UNCHANGED << auditor, signer, initResult, connection, deviations,
                  latestFeatures, contractDeployment, rpcMethods,
                  rpcCompatibility, finality, erc4337, testResults,
                  individualTests, errorTests, gasTests, evmVersion, classified,
                  calls, comparison, heap, thisResults, handed, balance, txSent,
                  refs, compatibilityScore, chainInfoChainId, envFile,
                  envContent, selectedChain, written, returned, chain, firstRun,
                  rpcScore, statements, contractResults, testEvents, totalTests,
                  passedTests, failedTests >>

DefinitiveTestLondonFeatures ==
  /\ auditor = "DefinitiveAuditor" /\ pc = "testLondonFeatures"
  /\ \E block \in ValueOutcomes, basefee \in CallOutcomes,
        coinbase \in CallOutcomes, chainId \in CallOutcomes :
       LET ps == { <<"EIP-1559", block>>, <<"EIP-3198", basefee>>,
                   <<"EIP-3651", coinbase>>, <<"EIP-1344", chainId>> }
       IN  /\ eips' = RecordFlags(eips, ps)
           /\ errors' = RecordErrors(errors, ps)
           /\ probes' = RecordProbes(probes, ps)
           /\ escaped' = RecordEscaped(escaped, ps)
           /\ pc' = "testContractDeployment"
  /\ UNCHANGED << auditor, signer, initResult, connection, deviations,
                  latestFeatures, contractDeployment, rpcMethods,
                  rpcCompatibility, finality, erc4337, testResults,
                  individualTests, errorTests, gasTests, evmVersion, classified,
                  calls, comparison, heap, thisResults, handed, balance, txSent,
                  refs, compatibilityScore, chainInfoChainId, envFile,
                  envContent, selectedChain, written, returned, chain, firstRun,
                  rpcScore, statements, contractResults, testEvents, totalTests,
                  passedTests, failedTests >>

\* without a signer the method returns at once; otherwise the OpcodeTest
\* contract is deployed and testPush0() is called on the deployed contract
DefinitiveTestContractDeployment ==
  /\ auditor = "DefinitiveAuditor" /\ pc = "testContractDeployment"
  /\ IF ~signer
       THEN contractDeployment' = contractDeployment
       ELSE contractDeployment' \in {"deployFailed", "push0Working", "push0Failed"}
  /\ pc' = "testRPCCompatibility"
  /\ UNCHANGED << auditor, signer, initResult, connection, probes, deviations,
                  eips, errors, escaped, latestFeatures, rpcMethods,
                  rpcCompatibility, finality, erc4337, testResults,
                  individualTests, errorTests, gasTests, evmVersion, classified,
                  calls, comparison, heap, thisResults, handed, balance, txSent,
                  refs, compatibilityScore, chainInfoChainId, envFile,
                  envContent, selectedChain, written, returned, chain, firstRun,
                  rpcScore, statements, contractResults, testEvents, totalTests,
                  passedTests, failedTests >>

\* criticalRPCs.length
DefinitiveRpcTotal == 9

\* rpcScore >= 80
ProductionThreshold == 80

\* the loop over criticalRPCs: each method is sent once and counted when it
\* resolves; the model keeps the count
DefinitiveTestRPCCompatibility ==
  /\ auditor = "DefinitiveAuditor" /\ pc = "testRPCCompatibility"
  /\ \E n \in 0..DefinitiveRpcTotal :
       /\ rpcCompatibility' = [supported |-> n, total |-> DefinitiveRpcTotal]
       /\ rpcScore' = Score([supported |-> n, total |-> DefinitiveRpcTotal])
  /\ pc' = "generateFinalVerdict"
  /\ UNCHANGED << auditor, signer, initResult, connection, probes, deviations,
                  eips, errors, escaped, latestFeatures, contractDeployment,
                  rpcMethods, finality, erc4337, testResults, individualTests,
                  errorTests, gasTests, evmVersion, classified, calls,
                  comparison, heap, thisResults, handed, balance, txSent, refs,
                  compatibilityScore, chainInfoChainId, envFile, envContent,
                  selectedChain, written, returned, chain, firstRun, statements,
                  contractResults, testEvents, totalTests, passedTests,
                  failedTests >>

\* productionReady = solidity0823Compatible && contractDeployed &&
\* push0InContract && rpcScore >= 80; the recommendations say "RPC
\* compatibility issues detected" when rpcScore < 80 and one of "Chain is
\* production-ready" / "Chain needs improvements for production"
DefinitiveGenerateFinalVerdict ==
  /\ auditor = "DefinitiveAuditor" /\ pc = "generateFinalVerdict"
  /\ LET label == DefinitiveAuditor_determineEVMVersion(eips)
         push0Working == Truthy(eips, "EIP-3855")
         contractDeployed == contractDeployment \in {"push0Working", "push0Failed"}
         push0InContract == contractDeployment = "push0Working"
         productionReady == /\ label = "shanghai" /\ push0Working
                            /\ contractDeployed /\ push0InContract
                            /\ rpcScore >= ProductionThreshold
     IN  /\ classified' = TRUE
         /\ evmVersion' = label
         /\ statements' = (IF rpcScore < ProductionThreshold THEN {"rpcIssue"} ELSE {})
                             \cup (IF productionReady THEN {"productionReady"}
                                   ELSE {"notProductionReady"})
  /\ pc' = "saveReport"
  /\ UNCHANGED << auditor, signer, initResult, connection, probes, deviations,
                  eips, errors, escaped, latestFeatures, contractDeployment,
                  rpcMethods, rpcCompatibility, finality, erc4337, testResults,
                  individualTests, errorTests, gasTests, calls, comparison,
                  heap, thisResults, handed, balance, txSent, refs,
                  compatibilityScore, chainInfoChainId, envFile, envContent,
                  selectedChain, written, returned, chain, firstRun, rpcScore,
                  contractResults, testEvents, totalTests, passedTests,
                  failedTests >>

\* printReport(), fs.writeFileSync(filename, ...), return this.results
DefinitiveSaveReport ==
  /\ auditor = "DefinitiveAuditor" /\ pc = "saveReport"
  /\ written' = TRUE
  /\ returned' = "results"
  /\ pc' = "done"
  /\ UNCHANGED << auditor, signer, initResult, connection, probes, deviations,
                  eips, errors, escaped, latestFeatures, contractDeployment,
                  rpcMethods, rpcCompatibility, finality, erc4337, testResults,
                  individualTests, errorTests, gasTests, evmVersion, classified,
                  calls, comparison, heap, thisResults, handed, balance, txSent,
                  refs, compatibilityScore, chainInfoChainId, envFile,
                  envContent, selectedChain, chain, firstRun, rpcScore,
                  statements, contractResults, testEvents, totalTests,
                  passedTests, failedTests >>

NextDefinitive ==
  \/ DefinitiveInitialize
  \/ DefinitiveTestShanghaiFeatures
  \/ DefinitiveTestLondonFeatures
  \/ DefinitiveTestContractDeployment
  \/ DefinitiveTestRPCCompatibility
  \/ DefinitiveGenerateFinalVerdict
  \/ DefinitiveSaveReport

(***************************************************************************)
(* QuickAdvancedAuditor.runQuickAudit                                      *)
(***************************************************************************)
QuickInitialize ==
  /\ auditor = "QuickAdvancedAuditor" /\ pc = "initialize"
  /\ \E ok \in BOOLEAN : InitializeReturning(ok)
  /\ pc' = "testCriticalEIPs"
  /\ UNCHANGED << auditor, probes, deviations, eips, errors, escaped,
                  latestFeatures, contractDeployment, rpcMethods,
                  rpcCompatibility, finality, erc4337, testResults,
                  individualTests, errorTests, gasTests, evmVersion, classified,
                  calls, comparison, heap, thisResults, handed, balance, txSent,
                  refs, compatibilityScore, chainInfoChainId, envFile,
                  envContent, selectedChain, written, returned, chain, firstRun,
                  rpcScore, statements, contractResults, testEvents, totalTests,
                  passedTests, failedTests >>

\* the four probes, then this.results.evmVersion = this.determineEVMVersion()
QuickTestCriticalEIPs ==
  /\ auditor = "QuickAdvancedAuditor" /\ pc = "testCriticalEIPs"
  /\ \E block \in ValueOutcomes, push0 \in CallOutcomes,
        chainId \in CallOutcomes, basefee \in CallOutcomes :
       LET ps == { <<"EIP-1559", block>>, <<"EIP-3855", push0>>,
                   <<"EIP-1344", chainId>>, <<"EIP-3198", basefee>> }
       IN  /\ eips' = RecordFlags(eips, ps)
           /\ probes' = RecordProbes(probes, ps)
           /\ classified' = TRUE
           /\ evmVersion' = QuickAdvancedAuditor_determineEVMVersion(RecordFlags(eips, ps))
           /\ pc' = "testCriticalRPC"
  /\ UNCHANGED << auditor, signer, initResult, connection, deviations, errors,
                  escaped, latestFeatures, contractDeployment, rpcMethods,
                  rpcCompatibility, finality, erc4337, testResults,
                  individualTests, errorTests, gasTests, calls, comparison,
                  heap, thisResults, handed, balance, txSent, refs,
                  compatibilityScore, chainInfoChainId, envFile, envContent,
                  selectedChain, written, returned, chain, firstRun, rpcScore,
                  statements, contractResults, testEvents, totalTests,
                  passedTests, failedTests >>

\* criticalRPCs.length
QuickRpcTotal == 8

QuickTestCriticalRPC ==
  /\ auditor = "QuickAdvancedAuditor" /\ pc = "testCriticalRPC"
  /\ \E n \in 0..QuickRpcTotal :
       /\ rpcCompatibility' = [supported |-> n, total |-> QuickRpcTotal]
       /\ rpcScore' = Score([supported |-> n, total |-> QuickRpcTotal])
  /\ pc' = "testQuickDeployment"
  /\ UNCHANGED << auditor, signer, initResult, connection, probes, deviations,
                  eips, errors, escaped, latestFeatures, contractDeployment,
                  rpcMethods, finality, erc4337, testResults, individualTests,
                  errorTests, gasTests, evmVersion, classified, calls,
                  comparison, heap, thisResults, handed, balance, txSent, refs,
                  compatibilityScore, chainInfoChainId, envFile, envContent,
                  selectedChain, written, returned, chain, firstRun, statements,
                  contractResults, testEvents, totalTests, passedTests,
                  failedTests >>

\* eth_estimateGas of the deployment data; nothing is deployed
QuickTestQuickDeployment ==
  /\ auditor = "QuickAdvancedAuditor" /\ pc = "testQuickDeployment"
  /\ IF ~signer
       THEN contractDeployment' = contractDeployment
       ELSE contractDeployment' \in {"estimateOk", "estimateFailed"}
  /\ pc' = "generateRecommendations"
  /\ UNCHANGED << auditor, signer, initResult, connection, probes, deviations,
                  eips, errors, escaped, latestFeatures, rpcMethods,
                  rpcCompatibility, finality, erc4337, testResults,
                  individualTests, errorTests, gasTests, evmVersion, classified,
                  calls, comparison, heap, thisResults, handed, balance, txSent,
                  refs, compatibilityScore, chainInfoChainId, envFile,
                  envContent, selectedChain, written, returned, chain, firstRun,
                  rpcScore, statements, contractResults, testEvents, totalTests,
                  passedTests, failedTests >>

QuickGenerateRecommendations ==
  /\ auditor = "QuickAdvancedAuditor" /\ pc = "generateRecommendations"
  /\ pc' = "saveReport"
  /\ UNCHANGED << auditor, signer, initResult, connection, probes, deviations,
                  eips, errors, escaped, latestFeatures, contractDeployment,
                  rpcMethods, rpcCompatibility, finality, erc4337, testResults,
                  individualTests, errorTests, gasTests, evmVersion, classified,
                  calls, comparison, heap, thisResults, handed, balance, txSent,
                  refs, compatibilityScore, chainInfoChainId, envFile,
                  envContent, selectedChain, written, returned, chain, firstRun,
                  rpcScore, statements, contractResults, testEvents, totalTests,
                  passedTests, failedTests >>

QuickSaveReport ==
  /\ auditor = "QuickAdvancedAuditor" /\ pc = "saveReport"
  /\ written' = TRUE
  /\ returned' = "results"
  /\ pc' = "done"
  /\ UNCHANGED << auditor, signer, initResult, connection, probes, deviations,
                  eips, errors, escaped, latestFeatures, contractDeployment,
                  rpcMethods, rpcCompatibility, finality, erc4337, testResults,
                  individualTests, errorTests, gasTests, evmVersion, classified,
                  calls, comparison, heap, thisResults, handed, balance, txSent,
                  refs, compatibilityScore, chainInfoChainId, envFile,
                  envContent, selectedChain, chain, firstRun, rpcScore,
                  statements, contractResults, testEvents, totalTests,
                  passedTests, failedTests >>

NextQuick ==
  \/ QuickInitialize
  \/ QuickTestCriticalEIPs
  \/ QuickTestCriticalRPC
  \/ QuickTestQuickDeployment
  \/ QuickGenerateRecommendations
  \/ QuickSaveReport

(***************************************************************************)
(* AdvancedEVMAuditor.runFullAudit                                         *)
(***************************************************************************)
\* if (!(await this.initialize())) return;
AdvancedInitialize ==
  /\ auditor = "AdvancedEVMAuditor" /\ pc = "initialize"
  /\ \E ok \in BOOLEAN :
       /\ InitializeReturning(ok)
       /\ pc' = IF ok THEN "testSolidity023Compatibility" ELSE "done"
       /\ returned' = IF ok THEN returned ELSE "undefined"
  /\ UNCHANGED << auditor, probes, deviations, eips, errors, escaped,
                  latestFeatures, contractDeployment, rpcMethods,
                  rpcCompatibility, finality, erc4337, testResults,
                  individualTests, errorTests, gasTests, evmVersion, classified,
                  calls, comparison, heap, thisResults, handed, balance, txSent,
                  refs, compatibilityScore, chainInfoChainId, envFile,
                  envContent, selectedChain, written, chain, firstRun, rpcScore,
                  statements, contractResults, testEvents, totalTests,
                  passedTests, failedTests >>

\* the calls of testSolidity023Compatibility; EIP-145 is two calls (SHL, SHR)
AdvancedEipCalls == {"EIP-1559", "EIP-1344", "EIP-3198", "EIP-3651", "EIP-3855",
                     "EIP-211", "SHL", "SHR"}

\* the outcome of each try block, from the answers to its calls
AdvancedEipProbes(a, hasBaseFee) ==
  { <<"EIP-1559", BlockAnswer(a["EIP-1559"], hasBaseFee)>>,
    <<"EIP-1344", a["EIP-1344"]>>, <<"EIP-3198", a["EIP-3198"]>>,
    <<"EIP-3651", a["EIP-3651"]>>, <<"EIP-3855", a["EIP-3855"]>>,
    <<"EIP-211", a["EIP-211"]>>,
    <<"EIP-145", IF a["SHL"] = "ok" /\ a["SHR"] = "ok" THEN "ok" ELSE "fail">> }

\* EIP-2718, EIP-2930 and EIP-3860 are set without a call
AssumedEips(e) == Put(Put(Put(e, "EIP-2718", TRUE), "EIP-2930", TRUE), "EIP-3860", TRUE)

\* results.eips is reset, the seven try blocks run, three flags are assumed,
\* the test contract is deployed when there is a signer, the label is computed
AdvancedTestSolidity023Compatibility ==
  /\ auditor = "AdvancedEVMAuditor" /\ pc = "testSolidity023Compatibility"
  /\ \E base \in CallOutcomes, dev \in Deviating(AdvancedEipCalls),
        hasBaseFee \in BOOLEAN, deployed \in BOOLEAN :
       LET a == Answers(AdvancedEipCalls, base, dev)
           ps == AdvancedEipProbes(a, hasBaseFee)
           flags == AssumedEips(RecordFlags(EmptyMap, ps))
       IN  /\ eips' = flags
           /\ probes' = RecordProbes(probes, ps)
           /\ escaped' = RecordEscaped(escaped, ps)
           /\ deviations' = deviations + Cardinality(dev)
           /\ contractDeployment' = IF signer /\ deployed THEN "deployed" ELSE "notDeployed"
           /\ classified' = TRUE
           /\ evmVersion' = AdvancedEVMAuditor_determineEVMVersion(flags)
  /\ pc' = "testLatestRPCFeatures"
  /\ UNCHANGED << auditor, signer, initResult, connection, errors,
                  latestFeatures, rpcMethods, rpcCompatibility, finality,
                  erc4337, testResults, individualTests, errorTests, gasTests,
                  calls, comparison, heap, thisResults, handed, balance, txSent,
                  refs, compatibilityScore, chainInfoChainId, envFile,
                  envContent, selectedChain, written, returned, chain, firstRun,
                  rpcScore, statements, contractResults, testEvents, totalTests,
                  passedTests, failedTests >>

\* the eth_call probes of MCOPY and SELFDESTRUCT tell an error whose message
\* has "invalid opcode" or "execution reverted" from any other error
OpcodeOutcomes == {"ok", "invalidOpcode", "fail"}

\* catch (error) { entry = { supported: !isInvalidOpcode, error: ... } }
TryOpcodeProbe(outcome) ==
  [supported |-> outcome # "invalidOpcode", error |-> outcome # "ok", raised |-> FALSE]

OpcodeAnswer(o, isInvalidOpcode) == IF o = "fail" /\ isInvalidOpcode THEN "invalidOpcode" ELSE o

RpcFeatures == {"EIP-4844_BlobBaseFee", "EIP-1153_TransientStorage", "EIP-4788_BeaconRoot"}
OpcodeFeatures == {"EIP-5656_MCOPY", "EIP-6780_SELFDESTRUCT"}
LatestFeatures == RpcFeatures \cup OpcodeFeatures

AdvancedTestLatestRPCFeatures ==
  /\ auditor = "AdvancedEVMAuditor" /\ pc = "testLatestRPCFeatures"
  /\ \E base \in CallOutcomes, dev \in Deviating(LatestFeatures),
        invalid \in SUBSET OpcodeFeatures :
       LET a == Answers(LatestFeatures, base, dev)
           o(k) == IF k \in OpcodeFeatures THEN OpcodeAnswer(a[k], k \in invalid)
                   ELSE a[k]
           r(k) == IF k \in OpcodeFeatures THEN TryOpcodeProbe(o(k)) ELSE TryProbe(o(k))
       IN  /\ latestFeatures' = [k \in LatestFeatures |-> r(k).supported]
           /\ errors' = (errors \ LatestFeatures) \cup {k \in LatestFeatures : r(k).error}
           /\ escaped' = escaped \cup {k \in LatestFeatures : r(k).raised}
           /\ deviations' = deviations + Cardinality(dev)
           /\ probes' = [k \in (DOMAIN probes) \cup LatestFeatures |->
                          IF k \in LatestFeatures THEN o(k) ELSE probes[k]]
  /\ pc' = "testIntegrationReadiness"
  /\ UNCHANGED << auditor, signer, initResult, connection, eips,
                  contractDeployment, rpcMethods, rpcCompatibility, finality,
                  erc4337, testResults, individualTests, errorTests, gasTests,
                  evmVersion, classified, calls, comparison, heap, thisResults,
                  handed, balance, txSent, refs, compatibilityScore,
                  chainInfoChainId, envFile, envContent, selectedChain, written,
                  returned, chain, firstRun, rpcScore, statements,
                  contractResults, testEvents, totalTests, passedTests,
                  failedTests >>

\* essentialRPCMethods.length
AdvancedRpcTotal == 14

\* the loop over essentialRPCMethods, kept as the count of the calls that
\* resolved; the finality and transaction scores are derived numbers that
\* only feed the printed provider scores
AdvancedTestIntegrationReadiness ==
  /\ auditor = "AdvancedEVMAuditor" /\ pc = "testIntegrationReadiness"
  /\ \E n \in 0..AdvancedRpcTotal :
       /\ rpcCompatibility' = [supported |-> n, total |-> AdvancedRpcTotal]
       /\ rpcScore' = Score([supported |-> n, total |-> AdvancedRpcTotal])
  /\ pc' = "saveReport"
  /\ UNCHANGED << auditor, signer, initResult, connection, probes, deviations,
                  eips, errors, escaped, latestFeatures, contractDeployment,
                  rpcMethods, finality, erc4337, testResults, individualTests,
                  errorTests, gasTests, evmVersion, classified, calls,
                  comparison, heap, thisResults, handed, balance, txSent, refs,
                  compatibilityScore, chainInfoChainId, envFile, envContent,
                  selectedChain, written, returned, chain, firstRun, statements,
                  contractResults, testEvents, totalTests, passedTests,
                  failedTests >>

\* generateRecommendations(), printReport(), fs.writeFileSync(reportPath, ...);
\* the method has no return statement
AdvancedSaveReport ==
  /\ auditor = "AdvancedEVMAuditor" /\ pc = "saveReport"
  /\ written' = TRUE
  /\ returned' = "undefined"
  /\ pc' = "done"
  /\ UNCHANGED << auditor, signer, initResult, connection, probes, deviations,
                  eips, errors, escaped, latestFeatures, contractDeployment,
                  rpcMethods, rpcCompatibility, finality, erc4337, testResults,
                  individualTests, errorTests, gasTests, evmVersion, classified,
                  calls, comparison, heap, thisResults, handed, balance, txSent,
                  refs, compatibilityScore, chainInfoChainId, envFile,
                  envContent, selectedChain, chain, firstRun, rpcScore,
                  statements, contractResults, testEvents, totalTests,
                  passedTests, failedTests >>

NextAdvanced ==
  \/ AdvancedInitialize
  \/ AdvancedTestSolidity023Compatibility
  \/ AdvancedTestLatestRPCFeatures
  \/ AdvancedTestIntegrationReadiness
  \/ AdvancedSaveReport

(***************************************************************************)
(* AdvancedEVMAuditorFixed.runFullAudit                                    *)
(***************************************************************************)
\* the return value of initialize() is not looked at
FixedInitialize ==
  /\ auditor = "AdvancedEVMAuditorFixed" /\ pc = "initialize"
  /\ \E ok \in BOOLEAN : InitializeReturning(ok)
  /\ pc' = "testSolidity023Compatibility"
  /\ UNCHANGED << auditor, probes, deviations, eips, errors, escaped,
                  latestFeatures, contractDeployment, rpcMethods,
                  rpcCompatibility, finality, erc4337, testResults,
                  individualTests, errorTests, gasTests, evmVersion, classified,
                  calls, comparison, heap, thisResults, handed, balance, txSent,
                  refs, compatibilityScore, chainInfoChainId, envFile,
                  envContent, selectedChain, written, returned, chain, firstRun,
                  rpcScore, statements, contractResults, testEvents, totalTests,
                  passedTests, failedTests >>

\* the calls of testSolidity023Compatibility; EIP-145 is the SHL call alone,
\* and every flag has its own eth_call (CALLCODE goes to results.opcodes)
FixedEipCalls == {"EIP-1559", "EIP-1344", "EIP-3198", "EIP-3651", "EIP-3855",
                  "EIP-211", "EIP-145", "EIP-2718", "EIP-2930", "EIP-3860"}

FixedEipProbes(a, hasBaseFee) ==
  { <<k, IF k = "EIP-1559" THEN BlockAnswer(a[k], hasBaseFee) ELSE a[k]>> : k \in FixedEipCalls }

FixedTestSolidity023Compatibility ==
  /\ auditor = "AdvancedEVMAuditorFixed" /\ pc = "testSolidity023Compatibility"
  /\ \E base \in CallOutcomes, dev \in Deviating(FixedEipCalls), hasBaseFee \in BOOLEAN :
       LET a == Answers(FixedEipCalls, base, dev)
           ps == FixedEipProbes(a, hasBaseFee)
       IN  /\ eips' = RecordFlags(eips, ps)
           /\ probes' = RecordProbes(probes, ps)
           /\ escaped' = RecordEscaped(escaped, ps)
           /\ deviations' = deviations + Cardinality(dev)
           /\ classified' = TRUE
           /\ evmVersion' = AdvancedEVMAuditorFixed_determineEVMVersion(RecordFlags(eips, ps))
  /\ pc' = "testRPCCompatibility"
  /\ UNCHANGED << auditor, signer, initResult, connection, errors,
                  latestFeatures, contractDeployment, rpcMethods,
                  rpcCompatibility, finality, erc4337, testResults,
                  individualTests, errorTests, gasTests, calls, comparison,
                  heap, thisResults, handed, balance, txSent, refs,
                  compatibilityScore, chainInfoChainId, envFile, envContent,
                  selectedChain, written, returned, chain, firstRun, rpcScore,
                  statements, contractResults, testEvents, totalTests,
                  passedTests, failedTests >>

\* rpcTests.length
FixedRpcTotal == 10

\* a call that races a timer: it resolves in time, it rejects, or the timer
\* rejects first with "Timeout after ...ms"
TimedOutcomes == {"ok", "fail", "timeout"}

\* the timer's rejection would be taken for an answer
TryTimedProbeTimeoutCounts(outcome) ==
  [supported |-> outcome # "fail", error |-> outcome = "fail", raised |-> FALSE]

\* try { result = await Promise.race([resultPromise, timeoutPromise]);
\*       entry = { supported: true }; supportedMethods++ }
\* catch (error) { entry = { supported: false, error: error.message } }
TryTimedProbe(outcome) ==
  [supported |-> outcome = "ok", error |-> outcome # "ok", raised |-> FALSE]

\* the loop without the timer: a call the node never answers leaves the
\* await pending for good
FixedTestRPCCompatibilityNoTimeout ==
  /\ auditor = "AdvancedEVMAuditorFixed" /\ pc = "testRPCCompatibility"
  /\ \/ /\ \E n \in 0..(FixedRpcTotal - 1), logs \in CallOutcomes :
             LET r == TryTimedProbe(logs)
                 supportedMethods == n + (IF r.supported THEN 1 ELSE 0)
             IN  /\ rpcMethods' = Put(rpcMethods, "eth_getLogs", r.supported)
                 /\ rpcCompatibility' = [supported |-> supportedMethods,
                                         total |-> FixedRpcTotal]
                 /\ rpcScore' = Score([supported |-> supportedMethods,
                                       total |-> FixedRpcTotal])
                 /\ errors' = IF r.error THEN errors \cup {"eth_getLogs"} ELSE errors
                 /\ probes' = Put(probes, "eth_getLogs", logs)
        /\ pc' = "testContractDeployment"
     \/ /\ UNCHANGED << rpcMethods, rpcCompatibility, rpcScore, errors, probes >>
        /\ pc' = "pending"
  /\ UNCHANGED << auditor, signer, initResult, connection, deviations, eips,
                  escaped, latestFeatures, contractDeployment, finality,
                  erc4337, testResults, individualTests, errorTests, gasTests,
                  evmVersion, classified, calls, comparison, heap, thisResults,
                  handed, balance, txSent, refs, compatibilityScore,
                  chainInfoChainId, envFile, envContent, selectedChain, written,
                  returned, chain, firstRun, statements, contractResults,
                  testEvents, totalTests, passedTests, failedTests >>

\* the loop over rpcTests: every call races a timer (Promise.race), so each
\* one settles; the nine other methods are kept as the count of those that
\* resolved in time, the eth_getLogs entry by itself
FixedTestRPCCompatibility ==
  /\ auditor = "AdvancedEVMAuditorFixed" /\ pc = "testRPCCompatibility"
  /\ \E n \in 0..(FixedRpcTotal - 1), logs \in TimedOutcomes :
       LET r == TryTimedProbe(logs)
           supportedMethods == n + (IF r.supported THEN 1 ELSE 0)
       IN  /\ rpcMethods' = Put(rpcMethods, "eth_getLogs", r.supported)
           /\ rpcCompatibility' = [supported |-> supportedMethods,
                                   total |-> FixedRpcTotal]
           /\ rpcScore' = Score([supported |-> supportedMethods, total |-> FixedRpcTotal])
           /\ errors' = IF r.error THEN errors \cup {"eth_getLogs"} ELSE errors
           /\ escaped' = IF r.raised THEN escaped \cup {"eth_getLogs"} ELSE escaped
           /\ probes' = Put(probes, "eth_getLogs", logs)
  /\ pc' = "testContractDeployment"
  /\ UNCHANGED << auditor, signer, initResult, connection, deviations, eips,
                  latestFeatures, contractDeployment, finality, erc4337,
                  testResults, individualTests, errorTests, gasTests,
                  evmVersion, classified, calls, comparison, heap, thisResults,
                  handed, balance, txSent, refs, compatibilityScore,
                  chainInfoChainId, envFile, envContent, selectedChain, written,
                  returned, chain, firstRun, statements, contractResults,
                  testEvents, totalTests, passedTests, failedTests >>

\* no signer: only a status text; otherwise the deployment (deploy and
\* waitForDeployment race timers of 2 and 3 minutes) and, when it succeeded,
\* the call of testBasicOpcodes() racing a timer of 30 seconds; a rejection
\* and a timeout reach the same catch
FixedTestContractDeployment ==
  /\ auditor = "AdvancedEVMAuditorFixed" /\ pc = "testContractDeployment"
  /\ \/ /\ ~signer
        /\ contractDeployment' = "noPrivateKey"
        /\ UNCHANGED << probes, errors >>
     \/ /\ signer
        /\ \E deploy \in TimedOutcomes, execution \in TimedOutcomes :
             LET d == TryTimedProbe(deploy)
                 x == TryTimedProbe(execution)
             IN  /\ deploy # "ok" => execution = "fail"   \* no call is made then
                 /\ contractDeployment' = IF ~d.supported THEN "deployFailed"
                                          ELSE IF x.supported THEN "executionOk"
                                          ELSE "executionFailed"
                 /\ errors' = errors
                      \cup (IF d.error THEN {"comprehensiveDeployment"} ELSE {})
                      \cup (IF d.supported /\ x.error THEN {"contractExecution"} ELSE {})
                 /\ probes' = IF d.supported
                                THEN Put(Put(probes, "comprehensiveDeployment", deploy),
                                         "contractExecution", execution)
                                ELSE Put(probes, "comprehensiveDeployment", deploy)
  /\ pc' = "testLatestRPCFeatures"
  /\ UNCHANGED << auditor, signer, initResult, connection, deviations, eips,
                  escaped, latestFeatures, rpcMethods, rpcCompatibility,
                  finality, erc4337, testResults, individualTests, errorTests,
                  gasTests, evmVersion, classified, calls, comparison, heap,
                  thisResults, handed, balance, txSent, refs,
                  compatibilityScore, chainInfoChainId, envFile, envContent,
                  selectedChain, written, returned, chain, firstRun, rpcScore,
                  statements, contractResults, testEvents, totalTests,
                  passedTests, failedTests >>

\* the loop over featureTests, each call racing a timer
FixedTestLatestRPCFeatures ==
  /\ auditor = "AdvancedEVMAuditorFixed" /\ pc = "testLatestRPCFeatures"
  /\ \E base \in CallOutcomes, dev \in Deviating(LatestFeatures) :
       LET a == Answers(LatestFeatures, base, dev)
           ps == { <<k, a[k]>> : k \in LatestFeatures }
       IN  /\ latestFeatures' = RecordFlags(EmptyMap, ps)
           /\ errors' = RecordErrors(errors, ps)
           /\ escaped' = RecordEscaped(escaped, ps)
           /\ deviations' = deviations + Cardinality(dev)
           /\ probes' = RecordProbes(probes, ps)
  /\ pc' = "saveReport"
  /\ UNCHANGED << auditor, signer, initResult, connection, eips,
                  contractDeployment, rpcMethods, rpcCompatibility, finality,
                  erc4337, testResults, individualTests, errorTests, gasTests,
                  evmVersion, classified, calls, comparison, heap, thisResults,
                  handed, balance, txSent, refs, compatibilityScore,
                  chainInfoChainId, envFile, envContent, selectedChain, written,
                  returned, chain, firstRun, rpcScore, statements,
                  contractResults, testEvents, totalTests, passedTests,
                  failedTests >>

\* results.deployment = deploymentResults.successRate >= 80: the deployment
\* and the execution both succeeded
FixedDeployment == contractDeployment = "executionOk"

\* rpcCompatibility.score >= 90
FixedReadyThreshold == 90

\* generateRecommendations(): "Fix RPC method implementations" below 90;
\* "Chain is production-ready for wallet and exchange integrations" when the
\* label is shanghai and the deployment worked, else "Chain needs
\* improvements for production readiness"
FixedRecommendations ==
  (IF rpcScore < FixedReadyThreshold THEN {"rpcIssue"} ELSE {})
    \cup (IF evmVersion = "shanghai" /\ FixedDeployment
            THEN {"productionReady"} ELSE {"notProductionReady"})

\* printReport(): isProductionReady = shanghai && deployment && score >= 90,
\* and the RPC Compatibility line shows the score as bad below 90
FixedPrintReport ==
  (IF rpcScore < FixedReadyThreshold THEN {"rpcIssue"} ELSE {})
    \cup (IF evmVersion = "shanghai" /\ FixedDeployment /\ rpcScore >= FixedReadyThreshold
            THEN {"productionReady"} ELSE {"notProductionReady"})

\* generateRecommendations(), printReport(), fs.writeFileSync(filename, ...),
\* return this.results
FixedSaveReport ==
  /\ auditor = "AdvancedEVMAuditorFixed" /\ pc = "saveReport"
  /\ statements' = FixedRecommendations \cup FixedPrintReport
  /\ written' = TRUE
  /\ returned' = "results"
  /\ pc' = "done"
  /\ UNCHANGED << auditor, signer, initResult, connection, probes, deviations,
                  eips, errors, escaped, latestFeatures, contractDeployment,
                  rpcMethods, rpcCompatibility, finality, erc4337, testResults,
                  individualTests, errorTests, gasTests, evmVersion, classified,
                  calls, comparison, heap, thisResults, handed, balance, txSent,
                  refs, compatibilityScore, chainInfoChainId, envFile,
                  envContent, selectedChain, chain, firstRun, rpcScore,
                  contractResults, testEvents, totalTests, passedTests,
                  failedTests >>

NextFixed ==
  \/ FixedInitialize
  \/ FixedTestSolidity023Compatibility
  \/ FixedTestRPCCompatibility
  \/ FixedTestContractDeployment
  \/ FixedTestLatestRPCFeatures
  \/ FixedSaveReport

(***************************************************************************)
(* CoreAuditor.runFullAudit and main of core-audit.js                      *)
(***************************************************************************)
\* initialize() rethrows; the signer is created after the first calls
\* this.results.chainInfo.chainId === 97
BscTestnetChainId == 97

\* the chain ids a run may read: BSC Testnet and another chain
ChainIds == {1, BscTestnetChainId}

CoreInitialize ==
  /\ auditor = "CoreAuditor" /\ pc = "initialize"
  /\ \E ok \in BOOLEAN :
       /\ initResult' = IF ok THEN "ok" ELSE "failed"
       /\ chainInfoChainId' \in IF ok THEN ChainIds ELSE {chainInfoChainId}
       /\ connection' = ok
       /\ signer' \in IF ok THEN {signer} ELSE {signer, FALSE}
       /\ pc' = IF ok THEN "testRPCMethods" ELSE "raised"
  /\ UNCHANGED << auditor, probes, deviations, eips, errors, escaped,
                  latestFeatures, contractDeployment, rpcMethods,
                  rpcCompatibility, finality, erc4337, testResults,
                  individualTests, errorTests, gasTests, evmVersion, classified,
                  calls, comparison, heap, thisResults, handed, balance, txSent,
                  refs, compatibilityScore, envFile, envContent, selectedChain,
                  written, returned, chain, firstRun, rpcScore, statements,
                  contractResults, testEvents, totalTests, passedTests,
                  failedTests >>

\* rpcMethods.length
CoreRpcTotal == 10

\* eth_getLogs: it resolves, or it rejects with "limit exceeded" and the
\* getBlock workaround resolves or rejects, or it rejects otherwise
GetLogsOutcomes == {"ok", "limitWorkaroundOk", "limitWorkaroundFail", "fail"}

TryGetLogs(outcome) ==
  [supported |-> outcome \in {"ok", "limitWorkaroundOk"},
   error |-> outcome \in {"limitWorkaroundFail", "fail"},
   raised |-> FALSE]

\* the loop over rpcMethods: the nine plain methods are kept as a count,
\* the eth_getLogs entry by itself
CoreTestRPCMethods ==
  /\ auditor = "CoreAuditor" /\ pc = "testRPCMethods"
  /\ \E n \in 0..(CoreRpcTotal - 1), logs \in GetLogsOutcomes :
       LET r == TryGetLogs(logs)
       IN  /\ rpcMethods' = Put(rpcMethods, "eth_getLogs", r.supported)
           /\ rpcCompatibility' = [supported |-> n + (IF r.supported THEN 1 ELSE 0),
                                   total |-> CoreRpcTotal]
           /\ errors' = IF r.error THEN errors \cup {"eth_getLogs"} ELSE errors
           /\ escaped' = IF r.raised THEN escaped \cup {"eth_getLogs"} ELSE escaped
           /\ probes' = Put(probes, "eth_getLogs", logs)
  /\ pc' = "testEIPs"
  /\ UNCHANGED << auditor, signer, initResult, connection, deviations, eips,
                  latestFeatures, contractDeployment, finality, erc4337,
                  testResults, individualTests, errorTests, gasTests,
                  evmVersion, classified, calls, comparison, heap, thisResults,
                  handed, balance, txSent, refs, compatibilityScore,
                  chainInfoChainId, envFile, envContent, selectedChain, written,
                  returned, chain, firstRun, rpcScore, statements,
                  contractResults, testEvents, totalTests, passedTests,
                  failedTests >>

CoreEips == {"EIP-1559", "EIP-1344", "EIP-2718", "EIP-2930", "EIP-3198", "EIP-3651",
             "EIP-3860", "EIP-3855", "EIP-211", "EIP-145"}

\* the read-only branch and the fallback of the catch block
AllEipsTrue == [k \in CoreEips |-> TRUE]

\* the tests run on the deployed AdvancedEVMTest contract; the three opcode
\* flags all come from the one testAdvancedOpcodes() call
CoreEipProbes(fees, chainId, basefee, coinbase, opcodes) ==
  { <<"EIP-1559", fees>>, <<"EIP-1344", chainId>>, <<"EIP-3198", basefee>>,
    <<"EIP-3651", coinbase>>, <<"EIP-3855", opcodes>>, <<"EIP-211", opcodes>>,
    <<"EIP-145", opcodes>> }

CoreTestEIPs ==
  /\ auditor = "CoreAuditor" /\ pc = "testEIPs"
  /\ \/ /\ ~signer
        /\ eips' = AllEipsTrue
        /\ UNCHANGED << probes, errors, escaped, contractDeployment >>
     \/ /\ signer
        /\ eips' = AllEipsTrue
        /\ contractDeployment' = "deployFailed"
        /\ UNCHANGED << probes, errors, escaped >>
     \/ /\ signer
        /\ contractDeployment' = "deployed"
        /\ \E fees \in ValueOutcomes, chainId \in CallOutcomes, basefee \in CallOutcomes,
              coinbase \in CallOutcomes, opcodes \in CallOutcomes :
             LET ps == CoreEipProbes(fees, chainId, basefee, coinbase, opcodes)
             IN  /\ eips' = AssumedEips(RecordFlags(EmptyMap, ps))
                 /\ errors' = RecordErrors(errors, ps)
                 /\ escaped' = RecordEscaped(escaped, ps)
                 /\ probes' = RecordProbes(probes, ps)
  /\ pc' = "testFinality"
  /\ UNCHANGED << auditor, signer, initResult, connection, deviations,
                  latestFeatures, rpcMethods, rpcCompatibility, finality,
                  erc4337, testResults, individualTests, errorTests, gasTests,
                  evmVersion, classified, calls, comparison, heap, thisResults,
                  handed, balance, txSent, refs, compatibilityScore,
                  chainInfoChainId, envFile, envContent, selectedChain, written,
                  returned, chain, firstRun, rpcScore, statements,
                  contractResults, testEvents, totalTests, passedTests,
                  failedTests >>

\* the five getBlock calls answered with stable block times, with unstable
\* ones, or one of the calls rejected
FinalityOutcomes == {"stable", "unstable", "fail"}

\* the whole method body is one try/catch: catch sets finality = { error }
CoreTestFinality ==
  /\ auditor = "CoreAuditor" /\ pc = "testFinality"
  /\ \E o \in FinalityOutcomes :
       LET r == TryProbe(IF o = "fail" THEN "fail" ELSE "ok")
       IN  /\ finality' = IF r.error THEN "error" ELSE IF r.raised THEN finality ELSE o
           /\ errors' = IF r.error THEN errors \cup {"finality"} ELSE errors
           /\ escaped' = IF r.raised THEN escaped \cup {"finality"} ELSE escaped
           /\ probes' = Put(probes, "finality", IF o = "fail" THEN "fail" ELSE "ok")
  /\ pc' = "testERC4337"
  /\ UNCHANGED << auditor, signer, initResult, connection, deviations, eips,
                  latestFeatures, contractDeployment, rpcMethods,
                  rpcCompatibility, erc4337, testResults, individualTests,
                  errorTests, gasTests, evmVersion, classified, calls,
                  comparison, heap, thisResults, handed, balance, txSent, refs,
                  compatibilityScore, chainInfoChainId, envFile, envContent,
                  selectedChain, written, returned, chain, firstRun, rpcScore,
                  statements, contractResults, testEvents, totalTests,
                  passedTests, failedTests >>

\* getCode of the two EntryPoint addresses; a rejected call counts as not found
CoreTestERC4337 ==
  /\ auditor = "CoreAuditor" /\ pc = "testERC4337"
  /\ erc4337' \in {"found", "notFound"}
  /\ pc' = "testIntegration"
  /\ UNCHANGED << auditor, signer, initResult, connection, probes, deviations,
                  eips, errors, escaped, latestFeatures, contractDeployment,
                  rpcMethods, rpcCompatibility, finality, testResults,
                  individualTests, errorTests, gasTests, evmVersion, classified,
                  calls, comparison, heap, thisResults, handed, balance, txSent,
                  refs, compatibilityScore, chainInfoChainId, envFile,
                  envContent, selectedChain, written, returned, chain, firstRun,
                  rpcScore, statements, contractResults, testEvents, totalTests,
                  passedTests, failedTests >>

\* Math.min(100, (rpcMethodsSupported / 10) * 100), where rpcMethodsSupported
\* counts the entries of results.rpcMethods with supported true
CoreRpcScore(rpcMethodsSupported) ==
  LET score == (rpcMethodsSupported * 100) \div 10
  IN  IF score > 100 THEN 100 ELSE score

\* typeof of the values the flag map holds
TypeOf(v) == IF v \in BOOLEAN THEN "boolean" ELSE "string"

\* rpcMethodsSupported >= 8 && eipsSupported >= 5
CoreReadyRpcMethods == 8
CoreReadyEips == 5

\* Object.values(this.results.eips).filter(eip => eip === true &&
\* typeof eip === 'string' && !eip.includes('_')).length: the filter is
\* given the values
CoreEipsSupported(e) ==
  Cardinality({k \in DOMAIN e : e[k] = TRUE /\ TypeOf(e[k]) = "string"})

\* Object.entries(this.results.eips).filter(([eip, supported]) =>
\* supported === false && typeof eip === 'string' && !eip.includes('_'))
CoreMissingEips(e) == {k \in DOMAIN e : e[k] = FALSE}

\* generateRecommendations(): the texts pushed, by their subject
CoreRecommendations ==
  LET rpcMethodsSupported == rpcCompatibility.supported
      isStable == finality = "stable"
      bsc == chainInfoChainId = BscTestnetChainId
  IN  (IF rpcMethodsSupported < rpcCompatibility.total THEN {"missingRpcMethods"} ELSE {})
      \cup (IF CoreMissingEips(eips) = {} THEN {}
            ELSE IF bsc THEN {"bscTestnetLimitations"} ELSE {"missingEips"})
      \cup (IF isStable THEN {} ELSE {"improveFinality"})
      \cup (IF erc4337 = "found" THEN {} ELSE {"deployEntryPoint"})
      \cup (IF /\ rpcMethodsSupported >= CoreReadyRpcMethods
                /\ CoreEipsSupported(eips) >= CoreReadyEips
                /\ isStable
              THEN (IF bsc THEN {"bscTestnetReady"} ELSE {"meetsProductionRequirements"})
              ELSE IF bsc THEN {"bscTestnetSuitable"}
              ELSE {"needsImprovements"})

\* testIntegration() and generateRecommendations() derive scores and texts
\* from the results gathered so far
CoreTestIntegration ==
  /\ auditor = "CoreAuditor" /\ pc = "testIntegration"
  /\ rpcScore' = CoreRpcScore(rpcCompatibility.supported)
  /\ statements' = CoreRecommendations
  /\ pc' = "printReport"
  /\ UNCHANGED << auditor, signer, initResult, connection, probes, deviations,
                  eips, errors, escaped, latestFeatures, contractDeployment,
                  rpcMethods, rpcCompatibility, finality, erc4337, testResults,
                  individualTests, errorTests, gasTests, evmVersion, classified,
                  calls, comparison, heap, thisResults, handed, balance, txSent,
                  refs, compatibilityScore, chainInfoChainId, envFile,
                  envContent, selectedChain, written, returned, chain, firstRun,
                  contractResults, testEvents, totalTests, passedTests,
                  failedTests >>

\* printReport() reads results.finality.averageBlockTime.toFixed(2) in both
\* branches of the finality section: a TypeError when finality = { error },
\* which runFullAudit rethrows
CorePrintReport ==
  /\ auditor = "CoreAuditor" /\ pc = "printReport"
  /\ IF finality = "error"
       THEN /\ pc' = "raised"
            /\ returned' = returned
       ELSE /\ pc' = "saveReport"
            /\ returned' = "results"
  /\ UNCHANGED << auditor, signer, initResult, connection, probes, deviations,
                  eips, errors, escaped, latestFeatures, contractDeployment,
                  rpcMethods, rpcCompatibility, finality, erc4337, testResults,
                  individualTests, errorTests, gasTests, evmVersion, classified,
                  calls, comparison, heap, thisResults, handed, balance, txSent,
                  refs, compatibilityScore, chainInfoChainId, envFile,
                  envContent, selectedChain, written, chain, firstRun, rpcScore,
                  statements, contractResults, testEvents, totalTests,
                  passedTests, failedTests >>

\* main: fs.writeFileSync(reportPath, JSON.stringify(results, null, 2))
CoreSaveReport ==
  /\ auditor = "CoreAuditor" /\ pc = "saveReport"
  /\ written' = TRUE
  /\ pc' = "done"
  /\ UNCHANGED << auditor, signer, initResult, connection, probes, deviations,
                  eips, errors, escaped, latestFeatures, contractDeployment,
                  rpcMethods, rpcCompatibility, finality, erc4337, testResults,
                  individualTests, errorTests, gasTests, evmVersion, classified,
                  calls, comparison, heap, thisResults, handed, balance, txSent,
                  refs, compatibilityScore, chainInfoChainId, envFile,
                  envContent, selectedChain, returned, chain, firstRun,
                  rpcScore, statements, contractResults, testEvents, totalTests,
                  passedTests, failedTests >>

NextCore ==
  \/ CoreInitialize
  \/ CoreTestRPCMethods
  \/ CoreTestEIPs
  \/ CoreTestFinality
  \/ CoreTestERC4337
  \/ CoreTestIntegration
  \/ CorePrintReport
  \/ CoreSaveReport

(***************************************************************************)
(* ComprehensiveSmartContractTest.runFullTest                              *)
(***************************************************************************)
\* initialize() deploys the test contract and rethrows any error; the signer
\* is the wallet of PRIVATE_KEY or a random one
ComprehensiveInitialize ==
  /\ auditor = "ComprehensiveSmartContractTest" /\ pc = "initialize"
  /\ \E ok \in BOOLEAN :
       /\ initResult' = IF ok THEN "ok" ELSE "failed"
       /\ connection' = ok
       /\ contractDeployment' = IF ok THEN "deployed" ELSE contractDeployment
       /\ pc' = IF ok THEN "runComprehensiveTests" ELSE "raised"
  /\ UNCHANGED << auditor, signer, probes, deviations, eips, errors, escaped,
                  latestFeatures, rpcMethods, rpcCompatibility, finality,
                  erc4337, testResults, individualTests, errorTests, gasTests,
                  evmVersion, classified, calls, comparison, heap, thisResults,
                  handed, balance, txSent, refs, compatibilityScore,
                  chainInfoChainId, envFile, envContent, selectedChain, written,
                  returned, chain, firstRun, rpcScore, statements,
                  contractResults, testEvents, totalTests, passedTests,
                  failedTests >>

\* the TestEvent names the report reads to pick the label, and EIP_3198
TestEventNames == {"PUSH0_OPCODE", "EIP_1559", "EIP_3198", "EIP_2718", "EIP_1344"}

\* runAllComprehensiveTests() mined: one result per TestEvent; on any error
\* testResults = {}
ComprehensiveRunComprehensiveTests ==
  /\ auditor = "ComprehensiveSmartContractTest" /\ pc = "runComprehensiveTests"
  /\ \E o \in CallOutcomes :
       /\ testResults' \in IF o = "ok" THEN [TestEventNames -> BOOLEAN] ELSE {EmptyMap}
       /\ probes' = Put(probes, "runAllComprehensiveTests", o)
  /\ pc' = "testIndividualFeatures"
  /\ UNCHANGED << auditor, signer, initResult, connection, deviations, eips,
                  errors, escaped, latestFeatures, contractDeployment,
                  rpcMethods, rpcCompatibility, finality, erc4337,
                  individualTests, errorTests, gasTests, evmVersion, classified,
                  calls, comparison, heap, thisResults, handed, balance, txSent,
                  refs, compatibilityScore, chainInfoChainId, envFile,
                  envContent, selectedChain, written, returned, chain, firstRun,
                  rpcScore, statements, contractResults, testEvents, totalTests,
                  passedTests, failedTests >>

IndividualTestNames == {"evmVersion", "basicOpcodes", "advancedOpcodes", "eip1559",
                        "push0", "baseFee", "chainId", "gasEstimation", "tryCatch",
                        "assemblyFeatures"}

ComprehensiveTestIndividualFeatures ==
  /\ auditor = "ComprehensiveSmartContractTest" /\ pc = "testIndividualFeatures"
  /\ \E base \in CallOutcomes, dev \in Deviating(IndividualTestNames) :
       LET a == Answers(IndividualTestNames, base, dev)
           ps == { <<k, a[k]>> : k \in IndividualTestNames }
       IN  /\ individualTests' = RecordFlags(EmptyMap, ps)
           /\ escaped' = RecordEscaped(escaped, ps)
           /\ deviations' = deviations + Cardinality(dev)
           /\ probes' = RecordProbes(probes, ps)
  /\ pc' = "testGasOptimization"
  /\ UNCHANGED << auditor, signer, initResult, connection, eips, errors,
                  latestFeatures, contractDeployment, rpcMethods,
                  rpcCompatibility, finality, erc4337, testResults, errorTests,
                  gasTests, evmVersion, classified, calls, comparison, heap,
                  thisResults, handed, balance, txSent, refs,
                  compatibilityScore, chainInfoChainId, envFile, envContent,
                  selectedChain, written, returned, chain, firstRun, rpcScore,
                  statements, contractResults, testEvents, totalTests,
                  passedTests, failedTests >>

\* estimateGas, the transaction and its receipt in one try whose catch
\* rethrows
ComprehensiveTestGasOptimization ==
  /\ auditor = "ComprehensiveSmartContractTest" /\ pc = "testGasOptimization"
  /\ \E o \in CallOutcomes :
       /\ gasTests' = (o = "ok")
       /\ probes' = Put(probes, "testGasOptimization", o)
       /\ pc' = IF o = "ok" THEN "testErrorHandling" ELSE "raised"
  /\ UNCHANGED << auditor, signer, initResult, connection, deviations, eips,
                  errors, escaped, latestFeatures, contractDeployment,
                  rpcMethods, rpcCompatibility, finality, erc4337, testResults,
                  individualTests, errorTests, evmVersion, classified, calls,
                  comparison, heap, thisResults, handed, balance, txSent, refs,
                  compatibilityScore, chainInfoChainId, envFile, envContent,
                  selectedChain, written, returned, chain, firstRun, rpcScore,
                  statements, contractResults, testEvents, totalTests,
                  passedTests, failedTests >>

\* testRevert() is expected to reject: revertWithReason is true when it does
ComprehensiveTestErrorHandling ==
  /\ auditor = "ComprehensiveSmartContractTest" /\ pc = "testErrorHandling"
  /\ \E revert \in CallOutcomes, tryCatch \in CallOutcomes :
       /\ errorTests' = Put(Put(EmptyMap, "revertWithReason", revert = "fail"),
                            "tryCatch", tryCatch = "ok")
       /\ probes' = Put(Put(probes, "testRevert", revert), "testTryCatch", tryCatch)
  /\ pc' = "generateComprehensiveReport"
  /\ UNCHANGED << auditor, signer, initResult, connection, deviations, eips,
                  errors, escaped, latestFeatures, contractDeployment,
                  rpcMethods, rpcCompatibility, finality, erc4337, testResults,
                  individualTests, gasTests, evmVersion, classified, calls,
                  comparison, heap, thisResults, handed, balance, txSent, refs,
                  compatibilityScore, chainInfoChainId, envFile, envContent,
                  selectedChain, written, returned, chain, firstRun, rpcScore,
                  statements, contractResults, testEvents, totalTests,
                  passedTests, failedTests >>

\* generateRecommendations() of the comprehensive test: a result that is
\* missing reads as undefined; Object.values(testResults).every(Boolean)
ComprehensiveRecommendations(t) ==
  (IF Truthy(t, "PUSH0_OPCODE") THEN {} ELSE {"upgradeToShanghai"})
  \cup (IF Truthy(t, "EIP_1559") THEN {} ELSE {"implementEip1559"})
  \cup (IF Truthy(t, "EIP_1344") THEN {} ELSE {"implementEip1344"})
  \cup (IF Truthy(t, "GAS_ESTIMATION") THEN {} ELSE {"improveGasEstimation"})
  \cup (IF Truthy(t, "REVERT_WITH_REASON") THEN {} ELSE {"revertWithReason"})
  \cup (IF Truthy(t, "TRY_CATCH") THEN {} ELSE {"tryCatch"})
  \cup (IF Truthy(t, "ASSEMBLY_FEATURES") THEN {} ELSE {"assemblyFeatures"})
  \cup (IF \A k \in DOMAIN t : t[k]
          THEN {"fullyCompatible", "readyForProduction", "compatibleWithSolidity023"}
          ELSE {})

\* the label is picked from testResults; the report object awaits
\* eth_chainId, and the catch rethrows
ComprehensiveGenerateComprehensiveReport ==
  /\ auditor = "ComprehensiveSmartContractTest" /\ pc = "generateComprehensiveReport"
  /\ \E chainId \in CallOutcomes :
       /\ probes' = Put(probes, "eth_chainId", chainId)
       /\ classified' = (classified \/ chainId = "ok")
       /\ compatibilityScore' = IF chainId = "ok" THEN Score(PassedOf(testResults))
                                 ELSE compatibilityScore
       /\ statements' = IF chainId = "ok" THEN ComprehensiveRecommendations(testResults)
                         ELSE statements
       /\ evmVersion' = IF chainId = "ok"
                          THEN ComprehensiveSmartContractTest_evmVersion(testResults)
                          ELSE evmVersion
       /\ pc' = IF chainId = "ok" THEN "saveReport" ELSE "raised"
  /\ UNCHANGED << auditor, signer, initResult, connection, deviations, eips,
                  errors, escaped, latestFeatures, contractDeployment,
                  rpcMethods, rpcCompatibility, finality, erc4337, testResults,
                  individualTests, errorTests, gasTests, calls, comparison,
                  heap, thisResults, handed, balance, txSent, refs,
                  chainInfoChainId, envFile, envContent, selectedChain, written,
                  returned, chain, firstRun, rpcScore, contractResults,
                  testEvents, totalTests, passedTests, failedTests >>

\* printComprehensiveReport(), saveReport(), return this.results.report
ComprehensiveSaveReport ==
  /\ auditor = "ComprehensiveSmartContractTest" /\ pc = "saveReport"
  /\ written' = TRUE
  /\ returned' = "report"
  /\ pc' = "done"
  /\ UNCHANGED << auditor, signer, initResult, connection, probes, deviations,
                  eips, errors, escaped, latestFeatures, contractDeployment,
                  rpcMethods, rpcCompatibility, finality, erc4337, testResults,
                  individualTests, errorTests, gasTests, evmVersion, classified,
                  calls, comparison, heap, thisResults, handed, balance, txSent,
                  refs, compatibilityScore, chainInfoChainId, envFile,
                  envContent, selectedChain, chain, firstRun, rpcScore,
                  statements, contractResults, testEvents, totalTests,
                  passedTests, failedTests >>

NextComprehensive ==
  \/ ComprehensiveInitialize
  \/ ComprehensiveRunComprehensiveTests
  \/ ComprehensiveTestIndividualFeatures
  \/ ComprehensiveTestGasOptimization
  \/ ComprehensiveTestErrorHandling
  \/ ComprehensiveGenerateComprehensiveReport
  \/ ComprehensiveSaveReport

(***************************************************************************)
(* MultiChainAuditor.testChain, for one chain of CHAINS                    *)
(***************************************************************************)
\* getBlockNumber and eth_chainId inside the try of testChain: an error goes
\* to its catch, which sets result.error, and the result is returned
MultiChainConnect ==
  /\ auditor = "MultiChainAuditor" /\ pc = "initialize"
  /\ \E ok \in BOOLEAN :
       /\ initResult' = IF ok THEN "ok" ELSE "failed"
       /\ connection' = ok
       /\ errors' = IF ok THEN errors ELSE errors \cup {"testChain"}
       /\ pc' = IF ok THEN "testRPCMethods" ELSE "saveReport"
  /\ UNCHANGED << auditor, signer, probes, deviations, eips, escaped,
                  latestFeatures, contractDeployment, rpcMethods,
                  rpcCompatibility, finality, erc4337, testResults,
                  individualTests, errorTests, gasTests, evmVersion, classified,
                  calls, comparison, heap, thisResults, handed, balance, txSent,
                  refs, compatibilityScore, chainInfoChainId, envFile,
                  envContent, selectedChain, written, returned, chain, firstRun,
                  rpcScore, statements, contractResults, testEvents, totalTests,
                  passedTests, failedTests >>

\* rpcTests.length
MultiChainRpcTotal == 10

MultiChainTestRPCMethods ==
  /\ auditor = "MultiChainAuditor" /\ pc = "testRPCMethods"
  /\ \E n \in 0..MultiChainRpcTotal :
       rpcCompatibility' = [supported |-> n, total |-> MultiChainRpcTotal]
  /\ pc' = "testEVMFunctions"
  /\ UNCHANGED << auditor, signer, initResult, connection, probes, deviations,
                  eips, errors, escaped, latestFeatures, contractDeployment,
                  rpcMethods, finality, erc4337, testResults, individualTests,
                  errorTests, gasTests, evmVersion, classified, calls,
                  comparison, heap, thisResults, handed, balance, txSent, refs,
                  compatibilityScore, chainInfoChainId, envFile, envContent,
                  selectedChain, written, returned, chain, firstRun, rpcScore,
                  statements, contractResults, testEvents, totalTests,
                  passedTests, failedTests >>

\* the calls of testEVMFunctions: getBlock(blockNumber) three times and
\* eth_chainId once; no call is made for PUSH0, RETURNDATASIZE or SHL/SHR
MultiChainEvmCalls == {"EIP-1559", "EIP-1344", "EIP-3198", "EIP-3651"}

\* baseFeePerGas !== undefined && baseFeePerGas > 0 for EIP-1559,
\* baseFeePerGas !== undefined for EIP-3198 (a block without a base fee has
\* the field undefined or null), miner !== undefined for EIP-3651
MultiChainEvmProbes(a, hasBaseFee, baseFeeDefined, hasMiner) ==
  { <<"EIP-1559", BlockAnswer(a["EIP-1559"], hasBaseFee)>>,
    <<"EIP-1344", a["EIP-1344"]>>,
    <<"EIP-3198", BlockAnswer(a["EIP-3198"], hasBaseFee \/ baseFeeDefined)>>,
    <<"EIP-3651", BlockAnswer(a["EIP-3651"], hasMiner)>> }

\* opcodes["PUSH0"] = eips["EIP-3855"] || false is read before EIP-3855 was
\* ever set, and eips["EIP-3855"] = opcodes["PUSH0"] writes that false back;
\* the same for EIP-211 and EIP-145
MultiChainOpcodeEips(e) ==
  LET push0 == Truthy(e, "EIP-3855")
      returndatasize == Truthy(e, "EIP-211")
      shl == Truthy(e, "EIP-145")
      shr == Truthy(e, "EIP-145")
  IN  Put(Put(Put(e, "EIP-3855", push0), "EIP-211", returndatasize),
          "EIP-145", shl /\ shr)

\* testEVMFunctions builds a fresh eips object, and testChain computes
\* result.evmVersion = this.determineEVMVersion(evmResults.eips)
MultiChainTestEVMFunctions ==
  /\ auditor = "MultiChainAuditor" /\ pc = "testEVMFunctions"
  /\ \E a \in [MultiChainEvmCalls -> CallOutcomes],
        hasBaseFee \in BOOLEAN, baseFeeDefined \in BOOLEAN, hasMiner \in BOOLEAN :
       LET ps == MultiChainEvmProbes(a, hasBaseFee, baseFeeDefined, hasMiner)
           flags == MultiChainOpcodeEips(AssumedEips(RecordFlags(EmptyMap, ps)))
       IN  /\ eips' = flags
           /\ probes' = RecordProbes(probes, ps)
           /\ escaped' = RecordEscaped(escaped, ps)
           /\ classified' = TRUE
           /\ evmVersion' = MultiChainAuditor_determineEVMVersion(flags)
  /\ pc' = "testLatestFeatures"
  /\ UNCHANGED << auditor, signer, initResult, connection, deviations, errors,
                  latestFeatures, contractDeployment, rpcMethods,
                  rpcCompatibility, finality, erc4337, testResults,
                  individualTests, errorTests, gasTests, calls, comparison,
                  heap, thisResults, handed, balance, txSent, refs,
                  compatibilityScore, chainInfoChainId, envFile, envContent,
                  selectedChain, written, returned, chain, firstRun, rpcScore,
                  statements, contractResults, testEvents, totalTests,
                  passedTests, failedTests >>

\* eth_blobBaseFee, eth_getTransientStorage, eth_getBeaconRoot; then
\* testSolidity023Compatibility and generateRecommendations read the result
MultiChainTestLatestFeatures ==
  /\ auditor = "MultiChainAuditor" /\ pc = "testLatestFeatures"
  /\ \E a \in [RpcFeatures -> CallOutcomes] :
       LET ps == { <<k, a[k]>> : k \in RpcFeatures }
       IN  /\ latestFeatures' = RecordFlags(EmptyMap, ps)
           /\ errors' = RecordErrors(errors, ps)
           /\ escaped' = RecordEscaped(escaped, ps)
           /\ probes' = RecordProbes(probes, ps)
  /\ pc' = "saveReport"
  /\ UNCHANGED << auditor, signer, initResult, connection, deviations, eips,
                  contractDeployment, rpcMethods, rpcCompatibility, finality,
                  erc4337, testResults, individualTests, errorTests, gasTests,
                  evmVersion, classified, calls, comparison, heap, thisResults,
                  handed, balance, txSent, refs, compatibilityScore,
                  chainInfoChainId, envFile, envContent, selectedChain, written,
                  returned, chain, firstRun, rpcScore, statements,
                  contractResults, testEvents, totalTests, passedTests,
                  failedTests >>

\* runFullAudit: this.results[chainKey] = result, printComparisonReport(),
\* saveResults(); the method has no return statement
MultiChainSaveResults ==
  /\ auditor = "MultiChainAuditor" /\ pc = "saveReport"
  /\ written' = TRUE
  /\ returned' = "undefined"
  /\ pc' = "done"
  /\ UNCHANGED << auditor, signer, initResult, connection, probes, deviations,
                  eips, errors, escaped, latestFeatures, contractDeployment,
                  rpcMethods, rpcCompatibility, finality, erc4337, testResults,
                  individualTests, errorTests, gasTests, evmVersion, classified,
                  calls, comparison, heap, thisResults, handed, balance, txSent,
                  refs, compatibilityScore, chainInfoChainId, envFile,
                  envContent, selectedChain, chain, firstRun, rpcScore,
                  statements, contractResults, testEvents, totalTests,
                  passedTests, failedTests >>

NextMultiChain ==
  \/ MultiChainConnect
  \/ MultiChainTestRPCMethods
  \/ MultiChainTestEVMFunctions
  \/ MultiChainTestLatestFeatures
  \/ MultiChainSaveResults

(***************************************************************************)
(* Two runs of one auditor on an unchanged chain                           *)
(***************************************************************************)
\* the calls whose answer feeds a flag, per class
DefinitiveCalls == {"EIP-3855", "MCOPY", "TransientStorage", "BeaconRoot",
                    "EIP-1559", "EIP-3198", "EIP-3651", "EIP-1344"}
CoreCalls == {"EIP-1559", "EIP-1344", "EIP-3198", "EIP-3651", "opcodes"}

RerunCalls(class) ==
  CASE class = "DefinitiveAuditor" -> DefinitiveCalls
    [] class = "AdvancedEVMAuditorFixed" -> FixedEipCalls
    [] class = "CoreAuditor" -> CoreCalls

RerunRpcTotal(class) ==
  CASE class = "DefinitiveAuditor" -> DefinitiveRpcTotal
    [] class = "AdvancedEVMAuditorFixed" -> FixedRpcTotal
    [] class = "CoreAuditor" -> CoreRpcTotal

\* what an unchanged chain answers at one block: the outcome of every call,
\* whether the block carries a positive baseFeePerGas, how many of the listed
\* RPC methods it serves, and whether the signer can deploy
ChainStates(class) ==
  [ answers : { Answers(RerunCalls(class), base, dev) :
                  base \in CallOutcomes, dev \in Deviating(RerunCalls(class)) },
    hasBaseFee : BOOLEAN,
    rpc : 0..RerunRpcTotal(class),
    deploys : BOOLEAN ]

\* testShanghaiFeatures and testLondonFeatures on the chain c
DefinitiveProbes(c) ==
  { <<k, IF k = "EIP-1559" THEN BlockAnswer(c.answers[k], c.hasBaseFee)
         ELSE c.answers[k]>> : k \in DefinitiveCalls }

\* what a run reports: its flags, its label, its RPC count
Reported(flags, label, rpc) == [eips |-> flags, evmVersion |-> label, rpc |-> rpc]

\* the run is over: the first one is remembered, the second one compared
RunEnds(flags, label, rpc) ==
  /\ eips' = flags
  /\ classified' = TRUE
  /\ evmVersion' = label
  /\ rpcCompatibility' = rpc
  /\ initResult' = "ok"
  /\ connection' = TRUE
  /\ written' = TRUE
  /\ IF pc = "firstRun"
       THEN /\ firstRun' = Reported(flags, label, rpc)
            /\ pc' = "secondRun"
       ELSE /\ firstRun' = firstRun
            /\ pc' = "ranTwice"

\* runDefinitiveAudit() on the same object: every probe overwrites its entry
RerunDefinitive ==
  /\ auditor = "DefinitiveAuditor" /\ pc \in {"firstRun", "secondRun"}
  /\ LET flags == RecordFlags(eips, DefinitiveProbes(chain))
     IN  /\ RunEnds(flags, DefinitiveAuditor_determineEVMVersion(flags),
                    [supported |-> chain.rpc, total |-> DefinitiveRpcTotal])
         /\ contractDeployment' = IF ~signer THEN contractDeployment
                                  ELSE IF chain.deploys THEN "push0Working"
                                  ELSE "deployFailed"
         /\ returned' = "results"
  /\ UNCHANGED << auditor, signer, probes, deviations, errors, escaped,
                  latestFeatures, rpcMethods, finality, erc4337, testResults,
                  individualTests, errorTests, gasTests, calls, comparison,
                  heap, thisResults, handed, balance, txSent, refs,
                  compatibilityScore, chainInfoChainId, envFile, envContent,
                  selectedChain, chain, rpcScore, statements, contractResults,
                  testEvents, totalTests, passedTests, failedTests >>

\* the flag probes of the fixed audit raced the timer of the RPC loop too:
\* a call that is answered late would be recorded as failed
RerunFixedTimedProbes ==
  /\ auditor = "AdvancedEVMAuditorFixed" /\ pc \in {"firstRun", "secondRun"}
  /\ \E late \in 0..chain.rpc, lateProbes \in SUBSET {"EIP-3855"} :
       LET ps == FixedEipProbes([k \in FixedEipCalls |->
                                   IF k \in lateProbes THEN "fail" ELSE chain.answers[k]],
                                chain.hasBaseFee)
           flags == RecordFlags(EmptyMap, ps)
       IN  /\ RunEnds(flags, AdvancedEVMAuditorFixed_determineEVMVersion(flags),
                      [supported |-> chain.rpc - late, total |-> FixedRpcTotal])
           /\ contractDeployment' = IF ~signer THEN "noPrivateKey"
                                    ELSE IF chain.deploys THEN "executionOk"
                                    ELSE "deployFailed"
           /\ returned' = "results"
  /\ UNCHANGED << auditor, signer, probes, deviations, errors, escaped,
                  latestFeatures, rpcMethods, finality, erc4337, testResults,
                  individualTests, errorTests, gasTests, calls, comparison,
                  heap, thisResults, handed, balance, txSent, refs,
                  compatibilityScore, chainInfoChainId, envFile, envContent,
                  selectedChain, chain, rpcScore, statements, contractResults,
                  testEvents, totalTests, passedTests, failedTests >>

\* runFullAudit() of the fixed audit: results.eips is reset and every flag
\* probe awaited without a timer; in the RPC loop each call races a timer,
\* so of the methods the chain serves `late` ones are answered too late
RerunFixed ==
  /\ auditor = "AdvancedEVMAuditorFixed" /\ pc \in {"firstRun", "secondRun"}
  /\ \E late \in 0..chain.rpc :
       LET ps == FixedEipProbes(chain.answers, chain.hasBaseFee)
           flags == RecordFlags(EmptyMap, ps)
       IN  /\ RunEnds(flags, AdvancedEVMAuditorFixed_determineEVMVersion(flags),
                      [supported |-> chain.rpc - late, total |-> FixedRpcTotal])
           /\ contractDeployment' = IF ~signer THEN "noPrivateKey"
                                    ELSE IF chain.deploys THEN "executionOk"
                                    ELSE "deployFailed"
           /\ returned' = "results"
  /\ UNCHANGED << auditor, signer, probes, deviations, errors, escaped,
                  latestFeatures, rpcMethods, finality, erc4337, testResults,
                  individualTests, errorTests, gasTests, calls, comparison,
                  heap, thisResults, handed, balance, txSent, refs,
                  compatibilityScore, chainInfoChainId, envFile, envContent,
                  selectedChain, chain, rpcScore, statements, contractResults,
                  testEvents, totalTests, passedTests, failedTests >>

\* runFullAudit() of the core audit up to testEIPs: every flag true without
\* a signer or when the deployment failed, else the tests of the contract;
\* the core audit computes no label
RerunCore ==
  /\ auditor = "CoreAuditor" /\ pc \in {"firstRun", "secondRun"}
  /\ LET a == chain.answers
         ps == CoreEipProbes(BlockAnswer(a["EIP-1559"], chain.hasBaseFee), a["EIP-1344"],
                             a["EIP-3198"], a["EIP-3651"], a["opcodes"])
         flags == IF signer /\ chain.deploys
                    THEN AssumedEips(RecordFlags(EmptyMap, ps))
                    ELSE AllEipsTrue
     IN  /\ RunEnds(flags, evmVersion, [supported |-> chain.rpc, total |-> CoreRpcTotal])
         /\ contractDeployment' = IF ~signer THEN contractDeployment
                                  ELSE IF chain.deploys THEN "deployed"
                                  ELSE "deployFailed"
         /\ returned' = "results"
  /\ UNCHANGED << auditor, signer, probes, deviations, errors, escaped,
                  latestFeatures, rpcMethods, finality, erc4337, testResults,
                  individualTests, errorTests, gasTests, calls, comparison,
                  heap, thisResults, handed, balance, txSent, refs,
                  compatibilityScore, chainInfoChainId, envFile, envContent,
                  selectedChain, chain, rpcScore, statements, contractResults,
                  testEvents, totalTests, passedTests, failedTests >>

RerunAuditors == {"DefinitiveAuditor", "AdvancedEVMAuditorFixed", "CoreAuditor"}

InitRerun ==
  /\ auditor \in RerunAuditors
  /\ signer \in BOOLEAN
  /\ pc = "firstRun"
  /\ eips = EmptyMap
  /\ FreshResults
  /\ chain \in ChainStates(auditor)
  /\ firstRun = EmptyMap
  /\ balance = 0
  /\ envFile = << >>
  /\ envContent = << >>
  /\ selectedChain = ""

NextRerun ==
  \/ RerunDefinitive
  \/ RerunFixed
  \/ RerunCore

SpecRerun == InitRerun /\ [][NextRerun]_vars

(***************************************************************************)
(* contracts/ComprehensiveEVMTest.sol                                      *)
(***************************************************************************)
\* calls of the test functions modelled per deployed contract
MaxTests == 3

\* a test function whose closing statement reads "if (result) passedTests++;"
\* with no else branch
RecordTestFailureUncounted(key, testName, result) ==
  /\ auditor = "ComprehensiveEVMTest"
  /\ totalTests < MaxTests
  /\ totalTests' = totalTests + 1
  /\ contractResults' = Put(contractResults, key, result)
  /\ testEvents' = testEvents \cup {<<testName, result>>}
  /\ passedTests' = IF result THEN passedTests + 1 ELSE passedTests
  /\ failedTests' = failedTests

\* totalTests++; testResults[key] = result;
\* emit TestEvent(totalTests, testName, result, ...);
\* if (result) passedTests++; else failedTests++;
RecordTest(key, testName, result) ==
  /\ auditor = "ComprehensiveEVMTest"
  /\ totalTests < MaxTests
  /\ totalTests' = totalTests + 1
  /\ contractResults' = Put(contractResults, key, result)
  /\ testEvents' = testEvents \cup {<<testName, result>>}
  /\ passedTests' = IF result THEN passedTests + 1 ELSE passedTests
  /\ failedTests' = IF result THEN failedTests ELSE failedTests + 1

\* shanghaiSupported: try this.testPush0Opcode() succeeded
testEVMVersion ==
  /\ \E shanghaiSupported \in BOOLEAN :
       RecordTest("evm_version", "EVM_VERSION", shanghaiSupported)
  /\ UNCHANGED << auditor, pc, signer, initResult, connection, probes,
                  deviations, eips, errors, escaped, latestFeatures,
                  contractDeployment, rpcMethods, rpcCompatibility, finality,
                  erc4337, testResults, individualTests, errorTests, gasTests,
                  evmVersion, classified, calls, comparison, heap, thisResults,
                  handed, balance, txSent, refs, compatibilityScore,
                  chainInfoChainId, envFile, envContent, selectedChain, written,
                  returned, chain, firstRun, rpcScore, statements >>

\* ADD, MUL, SUB, DIV give the expected results
testBasicOpcodes ==
  /\ RecordTest("basic_opcodes", "BASIC_OPCODES", TRUE)
  /\ UNCHANGED << auditor, pc, signer, initResult, connection, probes,
                  deviations, eips, errors, escaped, latestFeatures,
                  contractDeployment, rpcMethods, rpcCompatibility, finality,
                  erc4337, testResults, individualTests, errorTests, gasTests,
                  evmVersion, classified, calls, comparison, heap, thisResults,
                  handed, balance, txSent, refs, compatibilityScore,
                  chainInfoChainId, envFile, envContent, selectedChain, written,
                  returned, chain, firstRun, rpcScore, statements >>

\* SHL, SHR, SAR give the expected results
testAdvancedOpcodes ==
  /\ RecordTest("advanced_opcodes", "ADVANCED_OPCODES", TRUE)
  /\ UNCHANGED << auditor, pc, signer, initResult, connection, probes,
                  deviations, eips, errors, escaped, latestFeatures,
                  contractDeployment, rpcMethods, rpcCompatibility, finality,
                  erc4337, testResults, individualTests, errorTests, gasTests,
                  evmVersion, classified, calls, comparison, heap, thisResults,
                  handed, balance, txSent, refs, compatibilityScore,
                  chainInfoChainId, envFile, envContent, selectedChain, written,
                  returned, chain, firstRun, rpcScore, statements >>

\* baseFeeSupported: try this.testBaseFeeOpcode() succeeded
testEIP1559Features ==
  /\ \E baseFeeSupported \in BOOLEAN :
       RecordTest("eip_1559", "EIP_1559", baseFeeSupported)
  /\ UNCHANGED << auditor, pc, signer, initResult, connection, probes,
                  deviations, eips, errors, escaped, latestFeatures,
                  contractDeployment, rpcMethods, rpcCompatibility, finality,
                  erc4337, testResults, individualTests, errorTests, gasTests,
                  evmVersion, classified, calls, comparison, heap, thisResults,
                  handed, balance, txSent, refs, compatibilityScore,
                  chainInfoChainId, envFile, envContent, selectedChain, written,
                  returned, chain, firstRun, rpcScore, statements >>

testEIP1344ChainId ==
  /\ RecordTest("eip_1344", "EIP_1344", TRUE)
  /\ UNCHANGED << auditor, pc, signer, initResult, connection, probes,
                  deviations, eips, errors, escaped, latestFeatures,
                  contractDeployment, rpcMethods, rpcCompatibility, finality,
                  erc4337, testResults, individualTests, errorTests, gasTests,
                  evmVersion, classified, calls, comparison, heap, thisResults,
                  handed, balance, txSent, refs, compatibilityScore,
                  chainInfoChainId, envFile, envContent, selectedChain, written,
                  returned, chain, firstRun, rpcScore, statements >>

testEIP3651WarmCoinbase ==
  /\ RecordTest("eIP_3651", "EIP_3651", TRUE)
  /\ UNCHANGED << auditor, pc, signer, initResult, connection, probes,
                  deviations, eips, errors, escaped, latestFeatures,
                  contractDeployment, rpcMethods, rpcCompatibility, finality,
                  erc4337, testResults, individualTests, errorTests, gasTests,
                  evmVersion, classified, calls, comparison, heap, thisResults,
                  handed, balance, txSent, refs, compatibilityScore,
                  chainInfoChainId, envFile, envContent, selectedChain, written,
                  returned, chain, firstRun, rpcScore, statements >>

\* function getTestResult(string memory feature) external view returns (bool):
\* return testResults[feature]; a key never written reads as false
getTestResult(feature) ==
  IF feature \in DOMAIN contractResults THEN contractResults[feature] ELSE FALSE

InitContract ==
  /\ auditor = "ComprehensiveEVMTest"
  /\ signer = TRUE
  /\ pc = "deployed"
  /\ eips = EmptyMap
  /\ FreshResults
  /\ SingleRun

NextContract ==
  \/ testEVMVersion
  \/ testBasicOpcodes
  \/ testAdvancedOpcodes
  \/ testEIP1559Features
  \/ testEIP1344ChainId
  \/ testEIP3651WarmCoinbase

SpecContract == InitContract /\ [][NextContract]_vars

(***************************************************************************)
(* AdvancedEVMAuditor of part_008 (the earlier advanced audit) and         *)
(* compareChains of part_002, with the calls they issue counted            *)
(***************************************************************************)
\* one more call issued for each of keys
CountCalls(c, keys) ==
  [k \in (DOMAIN c) \cup keys |->
     (IF k \in DOMAIN c THEN c[k] ELSE 0) + (IF k \in keys THEN 1 ELSE 0)]

\* initialize() of part_008: catch (error) { ...; throw error; } and
\* runFullAudit has no catch
V1Initialize ==
  /\ auditor = "AdvancedEVMAuditorV1" /\ pc = "initialize"
  /\ \E ok \in BOOLEAN :
       /\ initResult' = IF ok THEN "ok" ELSE "failed"
       /\ connection' = ok
       /\ signer' \in IF ok THEN {signer} ELSE {signer, FALSE}
       /\ pc' = IF ok THEN "testSolidity023Compatibility" ELSE "raised"
  /\ UNCHANGED << auditor, probes, deviations, eips, errors, escaped,
                  latestFeatures, contractDeployment, rpcMethods,
                  rpcCompatibility, finality, erc4337, testResults,
                  individualTests, errorTests, gasTests, evmVersion, classified,
                  calls, comparison, heap, thisResults, handed, balance, txSent,
                  refs, compatibilityScore, chainInfoChainId, envFile,
                  envContent, selectedChain, written, returned, chain, firstRun,
                  rpcScore, statements, contractResults, testEvents, totalTests,
                  passedTests, failedTests >>

\* lines 62-181: results.eips is reset, the seven try blocks run (EIP-145 is
\* two calls), three flags are assumed, the contract is deployed when there
\* is a signer
V1FirstPass ==
  /\ auditor = "AdvancedEVMAuditorV1" /\ pc = "testSolidity023Compatibility"
  /\ \E base \in CallOutcomes, dev \in Deviating(AdvancedEipCalls),
        hasBaseFee \in BOOLEAN, deployed \in BOOLEAN :
       LET a == Answers(AdvancedEipCalls, base, dev)
           ps == AdvancedEipProbes(a, hasBaseFee)
       IN  /\ eips' = AssumedEips(RecordFlags(EmptyMap, ps))
           /\ probes' = RecordProbes(probes, ps)
           /\ calls' = CountCalls(calls, AdvancedEipCalls)
           /\ deviations' = deviations + Cardinality(dev)
           /\ contractDeployment' = IF signer /\ deployed THEN "deployed" ELSE "notDeployed"
  /\ pc' = "readOnlyTests"
  /\ UNCHANGED << auditor, signer, initResult, connection, errors, escaped,
                  latestFeatures, rpcMethods, rpcCompatibility, finality,
                  erc4337, testResults, individualTests, errorTests, gasTests,
                  evmVersion, classified, comparison, heap, thisResults, handed,
                  balance, txSent, refs, compatibilityScore, chainInfoChainId,
                  envFile, envContent, selectedChain, written, returned, chain,
                  firstRun, rpcScore, statements, contractResults, testEvents,
                  totalTests, passedTests, failedTests >>

\* the calls of lines 186-243
V1SecondCalls == {"EIP-1559", "EIP-1344", "EIP-3198", "EIP-3651", "EIP-3855"}

V1SecondProbes(a, hasBaseFee) ==
  { <<"EIP-1559", BlockAnswer(a["EIP-1559"], hasBaseFee)>>,
    <<"EIP-1344", a["EIP-1344"]>>, <<"EIP-3198", a["EIP-3198"]>>,
    <<"EIP-3651", a["EIP-3651"]>>, <<"EIP-3855", a["EIP-3855"]>> }

\* lines 245-249: five flags are set to true without a call
V1AssumedEips(e) ==
  Put(Put(AssumedEips(e), "EIP-211", TRUE), "EIP-145", TRUE)

\* lines 182-188, which follow the if/else of the deployment at the level of
\* the try block: this.results.eips = {} and getBlock("latest") is sent
V1ReadOnlyTestsBegin ==
  /\ auditor = "AdvancedEVMAuditorV1" /\ pc = "readOnlyTests"
  /\ eips' = EmptyMap
  /\ calls' = CountCalls(calls, {"EIP-1559"})
  /\ pc' = "readOnlyProbes"
  /\ UNCHANGED << auditor, signer, initResult, connection, probes, deviations,
                  errors, escaped, latestFeatures, contractDeployment,
                  rpcMethods, rpcCompatibility, finality, erc4337, testResults,
                  individualTests, errorTests, gasTests, evmVersion, classified,
                  comparison, heap, thisResults, handed, balance, txSent, refs,
                  compatibilityScore, chainInfoChainId, envFile, envContent,
                  selectedChain, written, returned, chain, firstRun, rpcScore,
                  statements, contractResults, testEvents, totalTests,
                  passedTests, failedTests >>

\* lines 188-289: the block arrives, the four other calls are sent again,
\* five flags are assumed, the label is computed
V1ReadOnlyTests ==
  /\ auditor = "AdvancedEVMAuditorV1" /\ pc = "readOnlyProbes"
  /\ \E base \in CallOutcomes, dev \in Deviating(V1SecondCalls),
        hasBaseFee \in BOOLEAN :
       LET a == Answers(V1SecondCalls, base, dev)
           ps == V1SecondProbes(a, hasBaseFee)
           flags == V1AssumedEips(RecordFlags(eips, ps))
       IN  /\ eips' = flags
           /\ probes' = RecordProbes(probes, ps)
           /\ calls' = CountCalls(calls, V1SecondCalls \ {"EIP-1559"})
           /\ deviations' = deviations + Cardinality(dev)
           /\ classified' = TRUE
           /\ evmVersion' = AdvancedEVMAuditorV1_determineEVMVersion(flags)
  /\ pc' = "testLatestRPCFeatures"
  /\ UNCHANGED << auditor, signer, initResult, connection, errors, escaped,
                  latestFeatures, contractDeployment, rpcMethods,
                  rpcCompatibility, finality, erc4337, testResults,
                  individualTests, errorTests, gasTests, comparison, heap,
                  thisResults, handed, balance, txSent, refs,
                  compatibilityScore, chainInfoChainId, envFile, envContent,
                  selectedChain, written, returned, chain, firstRun, rpcScore,
                  statements, contractResults, testEvents, totalTests,
                  passedTests, failedTests >>

\* five try blocks, each catch writes { supported: false, error }
V1TestLatestRPCFeatures ==
  /\ auditor = "AdvancedEVMAuditorV1" /\ pc = "testLatestRPCFeatures"
  /\ \E base \in CallOutcomes, dev \in Deviating(LatestFeatures) :
       LET a == Answers(LatestFeatures, base, dev)
       IN  /\ latestFeatures' = [k \in LatestFeatures |-> TryProbe(a[k]).supported]
           /\ errors' = (errors \ LatestFeatures)
                          \cup {k \in LatestFeatures : TryProbe(a[k]).error}
           /\ probes' = [k \in (DOMAIN probes) \cup LatestFeatures |->
                          IF k \in LatestFeatures THEN a[k] ELSE probes[k]]
           /\ calls' = CountCalls(calls, LatestFeatures)
           /\ deviations' = deviations + Cardinality(dev)
  /\ pc' = "printReport"
  /\ UNCHANGED << auditor, signer, initResult, connection, eips, escaped,
                  contractDeployment, rpcMethods, rpcCompatibility, finality,
                  erc4337, testResults, individualTests, errorTests, gasTests,
                  evmVersion, classified, comparison, heap, thisResults, handed,
                  balance, txSent, refs, compatibilityScore, chainInfoChainId,
                  envFile, envContent, selectedChain, written, returned, chain,
                  firstRun, rpcScore, statements, contractResults, testEvents,
                  totalTests, passedTests, failedTests >>

\* generateRecommendations(); printReport(); return this.results;
V1PrintReport ==
  /\ auditor = "AdvancedEVMAuditorV1" /\ pc = "printReport"
  /\ returned' = "results"
  /\ pc' = "done"
  /\ UNCHANGED << auditor, signer, initResult, connection, probes, deviations,
                  eips, errors, escaped, latestFeatures, contractDeployment,
                  rpcMethods, rpcCompatibility, finality, erc4337, testResults,
                  individualTests, errorTests, gasTests, evmVersion, classified,
                  calls, comparison, heap, thisResults, handed, balance, txSent,
                  refs, compatibilityScore, chainInfoChainId, envFile,
                  envContent, selectedChain, written, chain, firstRun, rpcScore,
                  statements, contractResults, testEvents, totalTests,
                  passedTests, failedTests >>

NextV1 ==
  \/ V1Initialize
  \/ V1FirstPass
  \/ V1ReadOnlyTestsBegin
  \/ V1ReadOnlyTests
  \/ V1TestLatestRPCFeatures
  \/ V1PrintReport

\* const chains = [...]: the chains compareChains visits, in this order
Chains == <<"MFEV Blockchain", "BSC Testnet">>

\* the chain of the current iteration of for (const chain of chains)
ChainsDone == Cardinality(DOMAIN comparison)
CurrentChain == Chains[ChainsDone + 1]

\* an iteration whose catch records the error and leaves the loop
ChainFailedEndsLoop ==
  /\ comparison' = Put(comparison, CurrentChain, "error")
  /\ pc' = "summary"

\* the catch of the iteration: results[chain.name] = { error }, next chain
ChainFailed ==
  /\ comparison' = Put(comparison, CurrentChain, "error")
  /\ pc' = IF ChainsDone + 1 < Len(Chains) THEN "connect" ELSE "summary"

\* rpcTests.length
CompareRpcTotal == 10

\* new ethers.JsonRpcProvider, getBlockNumber(), send("eth_chainId"): the
\* calls are counted for each provider
CompareConnect ==
  /\ auditor = "compareChains" /\ pc = "connect"
  /\ \E ok \in BOOLEAN :
       /\ calls' \in IF ok THEN {CountCalls(EmptyMap, {"eth_chainId"})}
                   ELSE {EmptyMap, CountCalls(EmptyMap, {"eth_chainId"})}
       /\ probes' = EmptyMap
       /\ rpcMethods' = EmptyMap
       /\ IF ok THEN /\ pc' = "rpcMethods"
                     /\ comparison' = comparison
               ELSE ChainFailed
  /\ UNCHANGED << auditor, signer, initResult, connection, deviations, eips,
                  errors, escaped, latestFeatures, contractDeployment,
                  rpcCompatibility, finality, erc4337, testResults,
                  individualTests, errorTests, gasTests, evmVersion, classified,
                  heap, thisResults, handed, balance, txSent, refs,
                  compatibilityScore, chainInfoChainId, envFile, envContent,
                  selectedChain, written, returned, chain, firstRun, rpcScore,
                  statements, contractResults, testEvents, totalTests,
                  passedTests, failedTests >>

\* the loop over rpcTests: eth_chainId and eth_getLogs are kept one by one,
\* the eight other methods as a count
CompareRpcMethods ==
  /\ auditor = "compareChains" /\ pc = "rpcMethods"
  /\ \E n \in 0..(CompareRpcTotal - 2), base \in CallOutcomes,
        dev \in Deviating({"eth_chainId", "eth_getLogs"}) :
       LET a == Answers({"eth_chainId", "eth_getLogs"}, base, dev)
           ps == {<<k, a[k]>> : k \in {"eth_chainId", "eth_getLogs"}}
           flags == RecordFlags(rpcMethods, ps)
       IN  /\ rpcMethods' = flags
           /\ rpcCompatibility' =
                [supported |-> n + Cardinality({k \in DOMAIN flags : flags[k]}),
                 total |-> CompareRpcTotal]
           /\ errors' = RecordErrors(errors, ps)
           /\ probes' = RecordProbes(probes, ps)
           /\ calls' = CountCalls(calls, {"eth_chainId", "eth_getLogs"})
           /\ deviations' = deviations + Cardinality(dev)
  /\ pc' = "finality"
  /\ UNCHANGED << auditor, signer, initResult, connection, eips, escaped,
                  latestFeatures, contractDeployment, finality, erc4337,
                  testResults, individualTests, errorTests, gasTests,
                  evmVersion, classified, comparison, heap, thisResults, handed,
                  balance, txSent, refs, compatibilityScore, chainInfoChainId,
                  envFile, envContent, selectedChain, written, returned, chain,
                  firstRun, rpcScore, statements, contractResults, testEvents,
                  totalTests, passedTests, failedTests >>

\* five getBlock calls with no try around them: a rejection ends the
\* iteration in its catch
CompareFinality ==
  /\ auditor = "compareChains" /\ pc = "finality"
  /\ \E ok \in BOOLEAN, isStable \in BOOLEAN :
       IF ok THEN /\ finality' = IF isStable THEN "stable" ELSE "unstable"
                  /\ pc' = "erc4337"
                  /\ comparison' = comparison
            ELSE /\ finality' = finality
                 /\ ChainFailed
  /\ UNCHANGED << auditor, signer, initResult, connection, probes, deviations,
                  eips, errors, escaped, latestFeatures, contractDeployment,
                  rpcMethods, rpcCompatibility, erc4337, testResults,
                  individualTests, errorTests, gasTests, evmVersion, classified,
                  calls, heap, thisResults, handed, balance, txSent, refs,
                  compatibilityScore, chainInfoChainId, envFile, envContent,
                  selectedChain, written, returned, chain, firstRun, rpcScore,
                  statements, contractResults, testEvents, totalTests,
                  passedTests, failedTests >>

\* getCode of the two entry points: the loop stops at the first address with
\* code, and goes on to the next address when a call rejects
CompareErc4337 ==
  /\ auditor = "compareChains" /\ pc = "erc4337"
  /\ \E first \in ValueOutcomes, second \in ValueOutcomes :
       /\ erc4337' = IF first = "ok" \/ second = "ok" THEN "supported" ELSE "unsupported"
       /\ calls' = CountCalls(CountCalls(calls, {"ERC-4337"}),
                              IF first = "ok" THEN {} ELSE {"ERC-4337"})
       /\ probes' = Put(probes, "ERC-4337", IF first = "ok" THEN first ELSE second)
  /\ pc' = "getLogs"
  /\ UNCHANGED << auditor, signer, initResult, connection, deviations, eips,
                  errors, escaped, latestFeatures, contractDeployment,
                  rpcMethods, rpcCompatibility, finality, testResults,
                  individualTests, errorTests, gasTests, evmVersion, classified,
                  comparison, heap, thisResults, handed, balance, txSent, refs,
                  compatibilityScore, chainInfoChainId, envFile, envContent,
                  selectedChain, written, returned, chain, firstRun, rpcScore,
                  statements, contractResults, testEvents, totalTests,
                  passedTests, failedTests >>

\* "Test eth_getLogs specifically": the call is sent once more, its status
\* is kept, results[chain.name] is assembled
CompareGetLogs ==
  /\ auditor = "compareChains" /\ pc = "getLogs"
  /\ \E logs \in CallOutcomes :
       /\ calls' = CountCalls(calls, {"eth_getLogs"})
       /\ probes' = Put(probes, "getLogsStatus", logs)
  /\ comparison' = Put(comparison, CurrentChain, "tested")
  /\ pc' = IF ChainsDone + 1 < Len(Chains) THEN "connect" ELSE "summary"
  /\ UNCHANGED << auditor, signer, initResult, connection, deviations, eips,
                  errors, escaped, latestFeatures, contractDeployment,
                  rpcMethods, rpcCompatibility, finality, erc4337, testResults,
                  individualTests, errorTests, gasTests, evmVersion, classified,
                  heap, thisResults, handed, balance, txSent, refs,
                  compatibilityScore, chainInfoChainId, envFile, envContent,
                  selectedChain, written, returned, chain, firstRun, rpcScore,
                  statements, contractResults, testEvents, totalTests,
                  passedTests, failedTests >>

\* the comparison summary is printed and chain-comparison-report.json written
CompareSummary ==
  /\ auditor = "compareChains" /\ pc = "summary"
  /\ written' = TRUE
  /\ pc' = "done"
  /\ UNCHANGED << auditor, signer, initResult, connection, probes, deviations,
                  eips, errors, escaped, latestFeatures, contractDeployment,
                  rpcMethods, rpcCompatibility, finality, erc4337, testResults,
                  individualTests, errorTests, gasTests, evmVersion, classified,
                  calls, comparison, heap, thisResults, handed, balance, txSent,
                  refs, compatibilityScore, chainInfoChainId, envFile,
                  envContent, selectedChain, returned, chain, firstRun,
                  rpcScore, statements, contractResults, testEvents, totalTests,
                  passedTests, failedTests >>

NextCompare ==
  \/ CompareConnect
  \/ CompareRpcMethods
  \/ CompareFinality
  \/ CompareErc4337
  \/ CompareGetLogs
  \/ CompareSummary

CountedAuditors == {"AdvancedEVMAuditorV1", "compareChains"}

InitCalls ==
  /\ auditor \in CountedAuditors
  /\ signer \in IF auditor = "compareChains" THEN {FALSE} ELSE BOOLEAN
  /\ pc = IF auditor = "compareChains" THEN "connect" ELSE "initialize"
  /\ eips = EmptyMap
  /\ FreshResults
  /\ SingleRun

NextCalls ==
  \/ NextV1
  \/ NextCompare

SpecCalls == InitCalls /\ [][NextCalls]_vars

(***************************************************************************)
(* main() of definitive-audit.js run twice: the results objects            *)
(***************************************************************************)
\* this.results as the constructor leaves it
FreshReport == Reported(EmptyMap, "unknown", NoRpc)

\* the chains a run may meet: the RPC methods all answer or none does
ReportChains ==
  {c \in ChainStates("DefinitiveAuditor") : c.rpc \in {0, DefinitiveRpcTotal} /\ c.deploys}

\* the second process, were it handed the auditor of the first one
MainReusesAuditor ==
  /\ auditor = "DefinitiveAuditor" /\ pc \in {"firstMain", "secondMain"}
  /\ heap' = IF pc = "firstMain" THEN Append(heap, FreshReport) ELSE heap
  /\ thisResults' = IF pc = "firstMain" THEN Len(heap) + 1 ELSE thisResults
  /\ pc' = IF pc = "firstMain" THEN "firstAudit" ELSE "secondAudit"
  /\ UNCHANGED << auditor, signer, initResult, connection, probes, deviations,
                  eips, errors, escaped, latestFeatures, contractDeployment,
                  rpcMethods, rpcCompatibility, finality, erc4337, testResults,
                  individualTests, errorTests, gasTests, evmVersion, classified,
                  calls, comparison, handed, balance, txSent, refs,
                  compatibilityScore, chainInfoChainId, envFile, envContent,
                  selectedChain, written, returned, chain, firstRun, rpcScore,
                  statements, contractResults, testEvents, totalTests,
                  passedTests, failedTests >>

\* const auditor = new DefinitiveAuditor(rpcUrl, privateKey): the
\* constructor makes a new results object
MainConstructsAuditor ==
  /\ auditor = "DefinitiveAuditor" /\ pc \in {"firstMain", "secondMain"}
  /\ heap' = Append(heap, FreshReport)
  /\ thisResults' = Len(heap) + 1
  /\ pc' = IF pc = "firstMain" THEN "firstAudit" ELSE "secondAudit"
  /\ UNCHANGED << auditor, signer, initResult, connection, probes, deviations,
                  eips, errors, escaped, latestFeatures, contractDeployment,
                  rpcMethods, rpcCompatibility, finality, erc4337, testResults,
                  individualTests, errorTests, gasTests, evmVersion, classified,
                  calls, comparison, handed, balance, txSent, refs,
                  compatibilityScore, chainInfoChainId, envFile, envContent,
                  selectedChain, written, returned, chain, firstRun, rpcScore,
                  statements, contractResults, testEvents, totalTests,
                  passedTests, failedTests >>

\* runDefinitiveAudit(): the stages write into this.results, the file
\* definitive-audit-<Date.now()>.json is written, this.results is returned
MainRunsDefinitiveAudit ==
  /\ auditor = "DefinitiveAuditor" /\ pc \in {"firstAudit", "secondAudit"}
  /\ \E c \in ReportChains :
       LET flags == RecordFlags(heap[thisResults].eips, DefinitiveProbes(c))
           report == Reported(flags, DefinitiveAuditor_determineEVMVersion(flags),
                              [supported |-> c.rpc, total |-> DefinitiveRpcTotal])
       IN  /\ heap' = [heap EXCEPT ![thisResults] = report]
           /\ handed' = Append(handed, [ref |-> thisResults, report |-> report])
  /\ pc' = IF pc = "firstAudit" THEN "secondMain" ELSE "exited"
  /\ UNCHANGED << auditor, signer, initResult, connection, probes, deviations,
                  eips, errors, escaped, latestFeatures, contractDeployment,
                  rpcMethods, rpcCompatibility, finality, erc4337, testResults,
                  individualTests, errorTests, gasTests, evmVersion, classified,
                  calls, comparison, thisResults, balance, txSent, refs,
                  compatibilityScore, chainInfoChainId, envFile, envContent,
                  selectedChain, written, returned, chain, firstRun, rpcScore,
                  statements, contractResults, testEvents, totalTests,
                  passedTests, failedTests >>

InitReports ==
  /\ auditor = "DefinitiveAuditor"
  /\ signer \in BOOLEAN
  /\ pc = "firstMain"
  /\ eips = EmptyMap
  /\ FreshResults
  /\ SingleRun

NextReports ==
  \/ MainConstructsAuditor
  \/ MainRunsDefinitiveAudit

SpecReports == InitReports /\ [][NextReports]_vars

(***************************************************************************)
(* The deployment scripts: freshDeploy, highGasDeploy, main of             *)
(* simple-mfev-deploy.js, MFEVMainnetDeployer                               *)
(***************************************************************************)
\* parseFloat(balanceEth) < 0.01, in thousandths of an ETH
MinDeployBalance == 10

\* the balances a signer is tried with
Balances == {0, MinDeployBalance - 1, MinDeployBalance, MinDeployBalance + 1}

\* the top of the three deployment functions: PRIVATE_KEY is required,
\* getBalance is awaited, and the function returns when the balance is low;
\* an error goes to the catch, which ends the process with code 1
DeployChecksBalance(script) ==
  /\ auditor = script /\ pc = "initialize"
  /\ \E ok \in BOOLEAN :
       /\ initResult' = IF signer /\ ok THEN "ok" ELSE "failed"
       /\ connection' = (signer /\ ok)
       /\ IF ~(signer /\ ok) THEN /\ pc' = "raised"
                                  /\ returned' = returned
          ELSE IF balance < MinDeployBalance THEN /\ pc' = "done"
                                                  /\ returned' = "undefined"
          ELSE /\ pc' = "deploy"
               /\ returned' = returned

\* estimateGas, the deployment transaction, the wait that races a timer of
\* five minutes, the reads of the receipt, the file with the deployment
\* info; the tests of the contract that follow have their own try/catch
DeploySendsTransaction(script) ==
  /\ auditor = script /\ pc = "deploy"
  /\ \E estimate \in CallOutcomes, broadcast \in CallOutcomes,
        wait \in TimedOutcomes, receipt \in CallOutcomes :
       /\ txSent' = (estimate = "ok" /\ broadcast = "ok")
       /\ IF estimate = "ok" /\ broadcast = "ok" /\ wait = "ok" /\ receipt = "ok"
            THEN /\ contractDeployment' = "deployed"
                 /\ written' = TRUE
                 /\ returned' = "undefined"
                 /\ pc' = "done"
            ELSE /\ contractDeployment' = contractDeployment
                 /\ written' = written
                 /\ returned' = returned
                 /\ pc' = "raised"

FreshDeployChecksBalance ==
  /\ DeployChecksBalance("freshDeploy")
  /\ UNCHANGED << auditor, signer, probes, deviations, eips, errors, escaped,
                  latestFeatures, contractDeployment, rpcMethods,
                  rpcCompatibility, finality, erc4337, testResults,
                  individualTests, errorTests, gasTests, evmVersion, classified,
                  calls, comparison, heap, thisResults, handed, balance, txSent,
                  refs, compatibilityScore, chainInfoChainId, envFile,
                  envContent, selectedChain, written, chain, firstRun, rpcScore,
                  statements, contractResults, testEvents, totalTests,
                  passedTests, failedTests >>

FreshDeploySendsTransaction ==
  /\ DeploySendsTransaction("freshDeploy")
  /\ UNCHANGED << auditor, signer, initResult, connection, probes, deviations,
                  eips, errors, escaped, latestFeatures, rpcMethods,
                  rpcCompatibility, finality, erc4337, testResults,
                  individualTests, errorTests, gasTests, evmVersion, classified,
                  calls, comparison, heap, thisResults, handed, balance, refs,
                  compatibilityScore, chainInfoChainId, envFile, envContent,
                  selectedChain, chain, firstRun, rpcScore, statements,
                  contractResults, testEvents, totalTests, passedTests,
                  failedTests >>

HighGasDeployChecksBalance ==
  /\ DeployChecksBalance("highGasDeploy")
  /\ UNCHANGED << auditor, signer, probes, deviations, eips, errors, escaped,
                  latestFeatures, contractDeployment, rpcMethods,
                  rpcCompatibility, finality, erc4337, testResults,
                  individualTests, errorTests, gasTests, evmVersion, classified,
                  calls, comparison, heap, thisResults, handed, balance, txSent,
                  refs, compatibilityScore, chainInfoChainId, envFile,
                  envContent, selectedChain, written, chain, firstRun, rpcScore,
                  statements, contractResults, testEvents, totalTests,
                  passedTests, failedTests >>

HighGasDeploySendsTransaction ==
  /\ DeploySendsTransaction("highGasDeploy")
  /\ UNCHANGED << auditor, signer, initResult, connection, probes, deviations,
                  eips, errors, escaped, latestFeatures, rpcMethods,
                  rpcCompatibility, finality, erc4337, testResults,
                  individualTests, errorTests, gasTests, evmVersion, classified,
                  calls, comparison, heap, thisResults, handed, balance, refs,
                  compatibilityScore, chainInfoChainId, envFile, envContent,
                  selectedChain, chain, firstRun, rpcScore, statements,
                  contractResults, testEvents, totalTests, passedTests,
                  failedTests >>

SimpleDeployChecksBalance ==
  /\ DeployChecksBalance("simpleDeploy")
  /\ UNCHANGED << auditor, signer, probes, deviations, eips, errors, escaped,
                  latestFeatures, contractDeployment, rpcMethods,
                  rpcCompatibility, finality, erc4337, testResults,
                  individualTests, errorTests, gasTests, evmVersion, classified,
                  calls, comparison, heap, thisResults, handed, balance, txSent,
                  refs, compatibilityScore, chainInfoChainId, envFile,
                  envContent, selectedChain, written, chain, firstRun, rpcScore,
                  statements, contractResults, testEvents, totalTests,
                  passedTests, failedTests >>

SimpleDeploySendsTransaction ==
  /\ DeploySendsTransaction("simpleDeploy")
  /\ UNCHANGED << auditor, signer, initResult, connection, probes, deviations,
                  eips, errors, escaped, latestFeatures, rpcMethods,
                  rpcCompatibility, finality, erc4337, testResults,
                  individualTests, errorTests, gasTests, evmVersion, classified,
                  calls, comparison, heap, thisResults, handed, balance, refs,
                  compatibilityScore, chainInfoChainId, envFile, envContent,
                  selectedChain, chain, firstRun, rpcScore, statements,
                  contractResults, testEvents, totalTests, passedTests,
                  failedTests >>

\* MFEVMainnetDeployer.initialize(): a low balance is only warned about;
\* the catch rethrows and so does the catch of runFullMainnetDeployment
MainnetInitialize ==
  /\ auditor = "MFEVMainnetDeployer" /\ pc = "initialize"
  /\ \E ok \in BOOLEAN :
       /\ initResult' = IF signer /\ ok THEN "ok" ELSE "failed"
       /\ connection' = (signer /\ ok)
       /\ pc' = IF signer /\ ok THEN "deployContract" ELSE "raised"
  /\ UNCHANGED << auditor, signer, probes, deviations, eips, errors, escaped,
                  latestFeatures, contractDeployment, rpcMethods,
                  rpcCompatibility, finality, erc4337, testResults,
                  individualTests, errorTests, gasTests, evmVersion, classified,
                  calls, comparison, heap, thisResults, handed, balance, txSent,
                  refs, compatibilityScore, chainInfoChainId, envFile,
                  envContent, selectedChain, written, returned, chain, firstRun,
                  rpcScore, statements, contractResults, testEvents, totalTests,
                  passedTests, failedTests >>

\* deployContract(): estimateGas, deploy, waitForDeployment, the reads of
\* the transaction and the block; the catch rethrows
MainnetDeployContract ==
  /\ auditor = "MFEVMainnetDeployer" /\ pc = "deployContract"
  /\ \E estimate \in CallOutcomes, broadcast \in CallOutcomes,
        wait \in CallOutcomes, receipt \in CallOutcomes :
       /\ txSent' = (estimate = "ok" /\ broadcast = "ok")
       /\ IF estimate = "ok" /\ broadcast = "ok" /\ wait = "ok" /\ receipt = "ok"
            THEN /\ contractDeployment' = "deployed"
                 /\ pc' = "runComprehensiveTests"
            ELSE /\ contractDeployment' = contractDeployment
                 /\ pc' = "raised"
  /\ UNCHANGED << auditor, signer, initResult, connection, probes, deviations,
                  eips, errors, escaped, latestFeatures, rpcMethods,
                  rpcCompatibility, finality, erc4337, testResults,
                  individualTests, errorTests, gasTests, evmVersion, classified,
                  calls, comparison, heap, thisResults, handed, balance, refs,
                  compatibilityScore, chainInfoChainId, envFile, envContent,
                  selectedChain, written, returned, chain, firstRun, rpcScore,
                  statements, contractResults, testEvents, totalTests,
                  passedTests, failedTests >>

\* runComprehensiveTests(): deploymentInfo.testResults = { testResults,
\* testDetails } from the TestEvent logs, or deploymentInfo.testError
MainnetRunComprehensiveTests ==
  /\ auditor = "MFEVMainnetDeployer" /\ pc = "runComprehensiveTests"
  /\ \E o \in CallOutcomes :
       /\ testResults' \in IF o = "ok" THEN [TestEventNames -> BOOLEAN] ELSE {testResults}
       /\ refs' = IF o = "ok"
                    THEN refs \cup {<<"deploymentInfo", "testResults">>,
                                    <<"testResults", "testResults.testResults">>,
                                    <<"testResults", "testResults.testDetails">>}
                    ELSE refs
       /\ errors' = IF o = "ok" THEN errors ELSE errors \cup {"testError"}
       /\ probes' = Put(probes, "runAllComprehensiveTests", o)
  /\ pc' = "testIndividualFeatures"
  /\ UNCHANGED << auditor, signer, initResult, connection, deviations, eips,
                  escaped, latestFeatures, contractDeployment, rpcMethods,
                  rpcCompatibility, finality, erc4337, individualTests,
                  errorTests, gasTests, evmVersion, classified, calls,
                  comparison, heap, thisResults, handed, balance, txSent,
                  compatibilityScore, chainInfoChainId, envFile, envContent,
                  selectedChain, written, returned, chain, firstRun, rpcScore,
                  statements, contractResults, testEvents, totalTests,
                  passedTests, failedTests >>

\* const features = [...]
MainnetFeatures == {"testBasicOpcodes", "testAdvancedOpcodes", "testEIP1559Features",
                    "testEIP1344ChainId", "testGasEstimation"}

\* testIndividualFeatures(): each call in its own try/catch
MainnetTestIndividualFeatures ==
  /\ auditor = "MFEVMainnetDeployer" /\ pc = "testIndividualFeatures"
  /\ \E base \in CallOutcomes, dev \in Deviating(MainnetFeatures) :
       LET a == Answers(MainnetFeatures, base, dev)
           ps == { <<k, a[k]>> : k \in MainnetFeatures }
       IN  /\ individualTests' = RecordFlags(EmptyMap, ps)
           /\ deviations' = deviations + Cardinality(dev)
           /\ probes' = RecordProbes(probes, ps)
  /\ refs' = refs \cup {<<"deploymentInfo", "individualTests">>}
  /\ pc' = "generateMainnetReport"
  /\ UNCHANGED << auditor, signer, initResult, connection, eips, errors,
                  escaped, latestFeatures, contractDeployment, rpcMethods,
                  rpcCompatibility, finality, erc4337, testResults, errorTests,
                  gasTests, evmVersion, classified, calls, comparison, heap,
                  thisResults, handed, balance, txSent, compatibilityScore,
                  chainInfoChainId, envFile, envContent, selectedChain, written,
                  returned, chain, firstRun, rpcScore, statements,
                  contractResults, testEvents, totalTests, passedTests,
                  failedTests >>

\* generateMainnetReport(): report = { deployment: this.deploymentInfo,
\* compatibilityScore, ... }; this.deploymentInfo.report = report
MainnetGenerateReport ==
  /\ auditor = "MFEVMainnetDeployer" /\ pc = "generateMainnetReport"
  /\ compatibilityScore' = Score(PassedOf(testResults))
  /\ refs' = refs \cup {<<"report", "deploymentInfo">>, <<"deploymentInfo", "report">>}
  /\ pc' = "saveMainnetReport"
  /\ UNCHANGED << auditor, signer, initResult, connection, probes, deviations,
                  eips, errors, escaped, latestFeatures, contractDeployment,
                  rpcMethods, rpcCompatibility, finality, erc4337, testResults,
                  individualTests, errorTests, gasTests, evmVersion, classified,
                  calls, comparison, heap, thisResults, handed, balance, txSent,
                  chainInfoChainId, envFile, envContent, selectedChain, written,
                  returned, chain, firstRun, rpcScore, statements,
                  contractResults, testEvents, totalTests, passedTests,
                  failedTests >>

\* the objects reached from root by following references
RECURSIVE ReachedFrom(_, _)
ReachedFrom(seen, edges) ==
  LET more == seen \cup {e[2] : e \in {d \in edges : d[1] \in seen}}
  IN  IF more = seen THEN seen ELSE ReachedFrom(more, edges)

\* JSON.stringify(value) throws a TypeError when value reaches an object
\* that reaches itself
Circular(root, edges) ==
  \E n \in ReachedFrom({root}, edges) :
     n \in ReachedFrom({e[2] : e \in {d \in edges : d[1] = n}}, edges)

\* printMainnetReport(); saveMainnetReport(): JSON.stringify(deploymentInfo)
\* and writeFileSync; return this.deploymentInfo, or the catch rethrows
MainnetSaveReport ==
  /\ auditor = "MFEVMainnetDeployer" /\ pc = "saveMainnetReport"
  /\ IF Circular("deploymentInfo", refs)
       THEN /\ written' = written
            /\ returned' = returned
            /\ pc' = "raised"
       ELSE /\ written' = TRUE
            /\ returned' = "deploymentInfo"
            /\ pc' = "done"
  /\ UNCHANGED << auditor, signer, initResult, connection, probes, deviations,
                  eips, errors, escaped, latestFeatures, contractDeployment,
                  rpcMethods, rpcCompatibility, finality, erc4337, testResults,
                  individualTests, errorTests, gasTests, evmVersion, classified,
                  calls, comparison, heap, thisResults, handed, balance, txSent,
                  refs, compatibilityScore, chainInfoChainId, envFile,
                  envContent, selectedChain, chain, firstRun, rpcScore,
                  statements, contractResults, testEvents, totalTests,
                  passedTests, failedTests >>

DeployScripts == {"freshDeploy", "highGasDeploy", "simpleDeploy", "MFEVMainnetDeployer"}

InitDeploy ==
  /\ auditor \in DeployScripts
  /\ signer \in BOOLEAN
  /\ pc = "initialize"
  /\ eips = EmptyMap
  /\ FreshResults
  /\ chain = EmptyMap
  /\ firstRun = EmptyMap
  /\ balance \in Balances
  /\ envFile = << >>
  /\ envContent = << >>
  /\ selectedChain = ""

NextDeploy ==
  \/ FreshDeployChecksBalance
  \/ FreshDeploySendsTransaction
  \/ HighGasDeployChecksBalance
  \/ HighGasDeploySendsTransaction
  \/ SimpleDeployChecksBalance
  \/ SimpleDeploySendsTransaction
  \/ MainnetInitialize
  \/ MainnetDeployContract
  \/ MainnetRunComprehensiveTests
  \/ MainnetTestIndividualFeatures
  \/ MainnetGenerateReport
  \/ MainnetSaveReport

SpecDeploy == InitDeploy /\ [][NextDeploy]_vars

(***************************************************************************)
(* The chain selector that follows the auditor in                          *)
(* scripts/advanced-evm-audit.js: CHAINS, updateEnvFile, main              *)
(***************************************************************************)
\* a number literal of CHAINS, kept as its leading digits and the count of the
\* zeros that follow them: 20000000000 is Number(2, 10)
Number(digits, zeros) == [digits |-> digits, zeros |-> zeros]

\* `${n}` for a number of CHAINS: its decimal digits
NumberText(n) == <<ToString(n.digits)>> \o [i \in 1..n.zeros |-> "0"]

\* a piece of the file between two "\n": the text up to and with its first "="
\* ("" when it has none) and the words after it
Line(prefix, rest) == [prefix |-> prefix, rest |-> rest]

BlankLine == Line("", << >>)

\* the six chains of the selector; a name is kept as its words and spaces
CHAINS ==
  [key \in {"1", "2", "3", "4", "5", "6"} |->
     CASE key = "1" -> [name |-> <<"MFEV", " ", "Blockchain">>,
                        rpcUrl |-> "https://rpc.mfevscan.com",
                        chainId |-> Number(9982, 0),
                        gasPrice |-> Number(2, 10), gasLimit |-> Number(3, 6)]
       [] key = "2" -> [name |-> <<"BSC", " ", "Testnet">>,
                        rpcUrl |-> "https://data-seed-prebsc-1-s1.binance.org:8545",
                        chainId |-> Number(97, 0),
                        gasPrice |-> Number(1, 10), gasLimit |-> Number(3, 6)]
       [] key = "3" -> [name |-> <<"BSC", " ", "Mainnet">>,
                        rpcUrl |-> "https://bsc-dataseed1.binance.org",
                        chainId |-> Number(56, 0),
                        gasPrice |-> Number(5, 9), gasLimit |-> Number(3, 6)]
       [] key = "4" -> [name |-> <<"Ethereum", " ", "Mainnet">>,
                        rpcUrl |-> "https://eth.llamarpc.com",
                        chainId |-> Number(1, 0),
                        gasPrice |-> Number(2, 10), gasLimit |-> Number(3, 6)]
       [] key = "5" -> [name |-> <<"Polygon", " ", "Mainnet">>,
                        rpcUrl |-> "https://polygon-rpc.com",
                        chainId |-> Number(137, 0),
                        gasPrice |-> Number(3, 10), gasLimit |-> Number(3, 6)]
       [] key = "6" -> [name |-> <<"Arbitrum", " ", "One">>,
                        rpcUrl |-> "https://arb1.arbitrum.io/rpc",
                        chainId |-> Number(42161, 0),
                        gasPrice |-> Number(1, 8), gasLimit |-> Number(3, 6)]]

\* String.prototype.replace with a string pattern: the first occurrence only
ReplaceFirst(s, pattern, replacement) ==
  LET hits == {i \in DOMAIN s : s[i] = pattern}
  IN  IF hits = {} THEN s
      ELSE [s EXCEPT ![CHOOSE i \in hits : \A j \in hits : i <= j] = replacement]

\* String.prototype.includes, for a whole word of a name
Includes(s, word) == \E i \in DOMAIN s : s[i] = word

\* const updates = [ `RPC_URL=${chain.rpcUrl}`, ... ]
EnvUpdates(c) ==
  << Line("RPC_URL=", <<c.rpcUrl>>),
     Line("CHAIN_ID=", NumberText(c.chainId)),
     Line("GAS_PRICE=", NumberText(c.gasPrice)),
     Line("GAS_LIMIT=", NumberText(c.gasLimit)),
     Line("NETWORK_NAME=", ReplaceFirst(c.name, " ", "_")),
     Line("NETWORK_TYPE=", IF Includes(c.name, "Testnet") THEN <<"testnet">> ELSE <<"mainnet">>) >>

\* fs.existsSync(envPath) ? fs.readFileSync(envPath, "utf8") : "", as the pieces
\* envContent.split("\n") gives: one empty piece for the empty text
ReadEnvContent == IF envFile = << >> THEN <<BlankLine>> ELSE envFile

\* the filter of a selector that drops only the four prefixes its comment names
\* ("Remove existing RPC_URL, CHAIN_ID, GAS_PRICE, GAS_LIMIT lines")
KeptLineFourPrefixes(line) ==
  line.prefix \notin {"RPC_URL=", "CHAIN_ID=", "GAS_PRICE=", "GAS_LIMIT="}

\* the filter of updateEnvFile: !line.startsWith("RPC_URL=") && ... six prefixes
KeptLine(line) ==
  line.prefix \notin {"RPC_URL=", "CHAIN_ID=", "GAS_PRICE=", "GAS_LIMIT=",
                      "NETWORK_NAME=", "NETWORK_TYPE="}

\* updateEnvFile(chain): what fs.writeFileSync(envPath, lines.join("\n")) writes
updateEnvFile(c) == SelectSeq(ReadEnvContent, KeptLine) \o EnvUpdates(c)

\* pieces of the .env files the selector may find
MaxEnvLines == 3

EnvLines ==
  { Line(p, <<"old">>) : p \in {"RPC_URL=", "CHAIN_ID=", "GAS_PRICE=", "GAS_LIMIT=",
                                "NETWORK_NAME=", "NETWORK_TYPE="} }
  \cup { Line("PRIVATE_KEY=", <<"0xabc">>), Line("export RPC_URL=", <<"old">>), BlankLine }

EnvFiles == UNION { [1..n -> EnvLines] : n \in 0..MaxEnvLines }

\* main(): process.argv[2] is absent (""), one of the keys of CHAINS or another
\* text; only a key of CHAINS reaches updateEnvFile, another text ends in
\* process.exit(1)
SelectChainMain ==
  /\ auditor = "select-chain"
  /\ \E arg \in DOMAIN CHAINS \cup {"", "7"} :
       /\ selectedChain' = arg
       /\ envContent' = IF arg \in DOMAIN CHAINS THEN ReadEnvContent ELSE envContent
       /\ envFile' = IF arg \in DOMAIN CHAINS THEN updateEnvFile(CHAINS[arg]) ELSE envFile
       /\ pc' = IF arg \in DOMAIN CHAINS \cup {""} THEN "exited" ELSE "raised"
  /\ UNCHANGED << auditor, signer, initResult, connection, probes, deviations,
                  eips, errors, escaped, latestFeatures, contractDeployment,
                  rpcMethods, rpcCompatibility, finality, erc4337, testResults,
                  individualTests, errorTests, gasTests, evmVersion, classified,
                  calls, comparison, heap, thisResults, handed, balance, txSent,
                  refs, compatibilityScore, chainInfoChainId, written, returned,
                  chain, firstRun, rpcScore, statements, contractResults,
                  testEvents, totalTests, passedTests, failedTests >>

InitEnv ==
  /\ auditor = "select-chain"
  /\ signer = FALSE
  /\ pc = "main"
  /\ eips = EmptyMap
  /\ FreshResults
  /\ chain = EmptyMap
  /\ balance = 0
  /\ firstRun = EmptyMap
  /\ envFile \in EnvFiles
  /\ envContent = << >>
  /\ selectedChain = ""

NextEnv == SelectChainMain

SpecEnv == InitEnv /\ [][NextEnv]_vars

(***************************************************************************)
(* The runs                                                                *)
(***************************************************************************)
\* the state after construction: PRIVATE_KEY was given or not
RunInit(classes) ==
  /\ auditor \in classes
  /\ signer \in BOOLEAN
  /\ pc = "initialize"
  /\ eips = EmptyMap
  /\ FreshResults
  /\ SingleRun

\* the scripts that go on whatever initialize() answered and the two whose
\* initialize() rethrows, and testChain of the multi-chain audit
Auditors == {"DefinitiveAuditor", "QuickAdvancedAuditor", "CoreAuditor",
             "ComprehensiveSmartContractTest", "MultiChainAuditor"}

Init == RunInit(Auditors)

Next ==
  \/ NextDefinitive
  \/ NextQuick
  \/ NextCore
  \/ NextComprehensive
  \/ NextMultiChain

Spec == Init /\ [][Next]_vars

\* the two full audits; every await settles (the calls of the fixed version
\* race a timer, the others end with the provider's own timeout), so a run
\* that can take a step takes it
LiveAuditors == {"AdvancedEVMAuditor", "AdvancedEVMAuditorFixed"}

InitLive == RunInit(LiveAuditors)

NextLive ==
  \/ NextAdvanced
  \/ NextFixed

SpecLive == InitLive /\ [][NextLive]_vars /\ WF_vars(NextLive)

(***************************************************************************)
(* Properties of the audit runs                                            *)
(***************************************************************************)
\* the label has been computed and the run goes on to the report
LabelComputed == pc \in {"saveReport", "done"}

\* the flag of a feature as the report of the run carries it: the
\* comprehensive test keeps it in testResults under the TestEvent name
TestEventOf(id) ==
  CASE id = "EIP-3855" -> "PUSH0_OPCODE"
    [] id = "EIP-1559" -> "EIP_1559"
    [] id = "EIP-3198" -> "EIP_3198"
    [] id = "EIP-2718" -> "EIP_2718"
    [] id = "EIP-1344" -> "EIP_1344"

ReportFlag(id) ==
  IF auditor = "ComprehensiveSmartContractTest"
    THEN Truthy(testResults, TestEventOf(id))
    ELSE Truthy(eips, id)

\* C1: when the eth_call probe of PUSH0 succeeded but testPush0() on the
\* deployed contract failed, the label of the run is not shanghai.
C1_ContractResultTakesPrecedence ==
  (/\ auditor = "DefinitiveAuditor"
   /\ LabelComputed
   /\ "EIP-3855" \in DOMAIN probes
   /\ probes["EIP-3855"] = "ok"
   /\ contractDeployment = "push0Failed")
  => evmVersion # "shanghai"

\* C2: in every report written, the label names no tier whose required flags
\* are not all true in that report: shanghai needs EIP-3855, london needs
\* EIP-1559 and EIP-3198, istanbul needs EIP-1344.
C2_LabelRequiresFlags ==
  written =>
    /\ evmVersion = "shanghai" => ReportFlag("EIP-3855")
    /\ evmVersion = "london" => (ReportFlag("EIP-1559") /\ ReportFlag("EIP-3198"))
    /\ evmVersion = "istanbul" => ReportFlag("EIP-1344")

\* C3: whenever EIP-3855 is true, the classifier (MultiChainAuditor, both
\* AdvancedEVMAuditor versions) returns shanghai, whatever the other flags are.
C3_Push0AlwaysShanghai ==
  (/\ pc = "classified"
   /\ auditor \in {"MultiChainAuditor", "AdvancedEVMAuditorV1", "AdvancedEVMAuditor"}
   /\ eips["EIP-3855"])
  => evmVersion = "shanghai"

\* C4: when initialize() failed, the run ends with an error for its caller:
\* no report file is written and no report object is returned.
C4_FailedConnectionNoReport ==
  initResult = "failed" => (~written /\ returned \notin {"results", "report"})

\* C5: a flag or an RPC method entry is true only if its probe was issued in
\* this run and resolved, and the entry of a probe that failed is false.
C5_SupportedOnlyIfProbedOk ==
  /\ \A k \in DOMAIN eips : eips[k] => (k \in DOMAIN probes /\ probes[k] = "ok")
  /\ \A k \in DOMAIN rpcMethods :
       rpcMethods[k] => (k \in DOMAIN probes /\ probes[k] = "ok")
  /\ \A k \in DOMAIN latestFeatures :
       latestFeatures[k] => (k \in DOMAIN probes /\ probes[k] = "ok")

\* C6: once initialize() has succeeded, no failing probe makes the run raise:
\* the run never ends in the raised state.
C6_ProbeFailureNeverAborts ==
  initResult = "ok" => pc # "raised"

\* C7: a probe of DefinitiveAuditor.testShanghaiFeatures / testLondonFeatures
\* or CoreAuditor.testFinality never lets an error out of its try/catch, and a
\* probe whose call failed has its entry unsupported with the error recorded.
C7_ProbeNeverRaises ==
  /\ escaped = {}
  /\ auditor = "DefinitiveAuditor" =>
       \A k \in DOMAIN probes : probes[k] = "fail" => (~Truthy(eips, k) /\ k \in errors)
  /\ auditor = "CoreAuditor" =>
       (("finality" \in DOMAIN probes /\ probes["finality"] = "fail")
          => (finality = "error" /\ "finality" \in errors))

\* a definitive audit that ran to its end after the PUSH0 probe failed
C7_FailedProbeRecorded ==
  /\ auditor = "DefinitiveAuditor"
  /\ pc = "done"
  /\ "EIP-3855" \in DOMAIN probes
  /\ probes["EIP-3855"] = "fail"
  /\ ~eips["EIP-3855"]
  /\ "EIP-3855" \in errors
  /\ escaped = {}

C9_AllFalseIsUnknown ==
  (/\ pc = "classified"
   /\ auditor \in {"AdvancedEVMAuditor", "DefinitiveAuditor", "debugEthereumMainnet"}
   /\ \A k \in ClassifierFlags : ~eips[k])
  => evmVersion = "unknown"

\* C10: after a successful initialize(), typed transactions count as
\* supported, so a run that meets neither the shanghai requirement (EIP-3855)
\* nor the london requirement (EIP-1559 and EIP-3198) is labelled berlin.
C10_NoShanghaiNoLondonIsBerlin ==
  (/\ auditor \in {"AdvancedEVMAuditor", "DefinitiveAuditor"}
   /\ initResult = "ok"
   /\ LabelComputed
   /\ ~Truthy(eips, "EIP-3855")
   /\ ~(Truthy(eips, "EIP-1559") /\ Truthy(eips, "EIP-3198")))
  => evmVersion = "berlin"

\* the call recorded under k in this run had outcome o
ProbeIs(k, o) == k \in DOMAIN probes /\ probes[k] = o

\* C11: when the latest block has no baseFeePerGas and the PUSH0 probe
\* failed, the run has EIP-1559 false and EIP-3855 false, and its label is
\* unknown, or istanbul when the chain-id probe succeeded.
C11_NoBaseFeeNoPush0 ==
  (/\ auditor \in {"DefinitiveAuditor", "QuickAdvancedAuditor", "AdvancedEVMAuditor"}
   /\ LabelComputed
   /\ ProbeIs("EIP-1559", "absent")
   /\ ProbeIs("EIP-3855", "fail"))
  => /\ ~Truthy(eips, "EIP-1559")
     /\ ~Truthy(eips, "EIP-3855")
     /\ evmVersion \in {"unknown", "istanbul"}
     /\ evmVersion = "istanbul" => ProbeIs("EIP-1344", "ok")

\* C12: when the latest block has a positive baseFeePerGas and PUSH0 works
\* (the PUSH0 probe succeeded where the auditor has one; MultiChainAuditor
\* sends none, whatever the chain), the run has EIP-1559 true and EIP-3855
\* true and its label is shanghai.
C12_BaseFeeAndPush0IsShanghai ==
  (/\ auditor \in {"DefinitiveAuditor", "MultiChainAuditor"}
   /\ LabelComputed
   /\ ProbeIs("EIP-1559", "ok")
   /\ auditor = "DefinitiveAuditor" => ProbeIs("EIP-3855", "ok"))
  => /\ Truthy(eips, "EIP-1559")
     /\ Truthy(eips, "EIP-3855")
     /\ evmVersion = "shanghai"

RespondedWithoutError ==
  rpcCompatibility.supported
    - (IF ProbeIs("eth_getLogs", "limitWorkaroundOk") THEN 1 ELSE 0)

\* C14: the RPC coverage score is the number of listed methods that answered
\* without error over the number of methods tested, as a percentage rounded
\* to the nearest integer.
C14_ScoreIsRoundedPercentage ==
  (/\ auditor \in {"DefinitiveAuditor", "CoreAuditor", "AdvancedEVMAuditorFixed"}
   /\ rpcScore # -1)
  => LET d == rpcScore * rpcCompatibility.total - 100 * RespondedWithoutError
     IN  2 * d <= rpcCompatibility.total /\ -2 * d <= rpcCompatibility.total

\* C15: the report says production-ready only with an RPC score of at least
\* 80, and with a score below 80 it reports an RPC compatibility issue and
\* says not production-ready.
C15_ProductionReadyNeedsScore ==
  (/\ auditor \in {"DefinitiveAuditor", "AdvancedEVMAuditorFixed"}
   /\ written)
  => /\ "productionReady" \in statements => rpcScore >= 80
     /\ rpcScore < 80 => /\ "rpcIssue" \in statements
                         /\ "notProductionReady" \in statements

\* C19: in the fixed audit a call that ran into its timer is recorded as a
\* failed one is: its entry is unsupported with an error message, it is not
\* counted in the score, and the run goes on to its next stage.
C19_TimeoutIsFailure ==
  /\ ProbeIs("eth_getLogs", "timeout") =>
       /\ ~Truthy(rpcMethods, "eth_getLogs")
       /\ "eth_getLogs" \in errors
       /\ rpcCompatibility.supported < rpcCompatibility.total
       /\ rpcScore < 100
       /\ pc \notin {"testRPCCompatibility", "pending", "raised"}
  /\ ProbeIs("comprehensiveDeployment", "timeout") =>
       /\ contractDeployment = "deployFailed"
       /\ "comprehensiveDeployment" \in errors
       /\ pc \notin {"testContractDeployment", "pending", "raised"}
  /\ ProbeIs("contractExecution", "timeout") =>
       /\ contractDeployment = "executionFailed"
       /\ "contractExecution" \in errors
       /\ pc \notin {"testContractDeployment", "pending", "raised"}

\* a fixed audit that wrote its report after eth_getLogs and the execution of
\* the deployed contract had both timed out
C19_ReportAfterTimeouts ==
  /\ auditor = "AdvancedEVMAuditorFixed"
  /\ written
  /\ ProbeIs("eth_getLogs", "timeout")
  /\ ProbeIs("contractExecution", "timeout")
  /\ ~rpcMethods["eth_getLogs"]
  /\ rpcCompatibility.supported = FixedRpcTotal - 1
  /\ rpcScore = 90

\* C16: after a test function of ComprehensiveEVMTest ran and passed,
\* getTestResult called with the name its TestEvent carries returns true.
C16_GetTestResultByEventName ==
  \A e \in testEvents : e[2] => getTestResult(e[1])

\* C17: a run goes through its stages in the order connect, probes, classify,
\* score, assemble: the label is computed once the connection is made and
\* before the RPC score is computed, no probe is issued after the label is
\* computed, the score is computed only after the label, and the report is
\* written only after both.
C17_ClassifyAfterProbesBeforeScore ==
  [][(auditor \in {"DefinitiveAuditor", "AdvancedEVMAuditor"}) =>
       /\ (~classified /\ classified') => (initResult = "ok" /\ rpcScore = -1)
       /\ classified => probes' = probes
       /\ rpcScore' # rpcScore => classified
       /\ (~written /\ written' /\ initResult = "ok") => (classified /\ rpcScore # -1)
    ]_vars

\* C18: every probe is issued at most once in a run: no feature or method has
\* more than one call, so none is called again after its call failed.
C18_EachProbeIssuedOnce == \A k \in DOMAIN calls : calls[k] <= 1

\* the entries of a collection are kept as they were recorded
AppendOnly(old, new) == \A k \in DOMAIN old : k \in DOMAIN new /\ new[k] = old[k]

\* C20: within a run the flag collection is only appended to: an entry once
\* recorded is neither removed nor given another value by a later step.
C20_FlagsOnlyAppended ==
  [][(auditor \in {"AdvancedEVMAuditorV1", "CoreAuditor", "MultiChainAuditor"})
       => AppendOnly(eips, eips')]_vars

C22_Eip145IffBothShiftsAnswer ==
  (auditor \in {"AdvancedEVMAuditor", "AdvancedEVMAuditorV1"} /\ classified)
    => (Truthy(eips, "EIP-145") <=> ProbeIs("EIP-145", "ok"))

\* C23: for every assignment of the flags, each determineEVMVersion variant
\* returns the first tier whose required flags are all true, from newest to
\* oldest: shanghai (EIP-3855), london (EIP-1559 and EIP-3198), berlin
\* (typed transactions, EIP-2718), istanbul (EIP-1344), else unknown.
C23_VariantsReturnFirstMatchingTier ==
  (/\ pc = "classified"
   /\ auditor \in {"DefinitiveAuditor", "QuickAdvancedAuditor", "AdvancedEVMAuditor",
                   "AdvancedEVMAuditorFixed", "MultiChainAuditor"})
  => evmVersion = (IF eips["EIP-3855"] THEN "shanghai"
                   ELSE IF eips["EIP-1559"] /\ eips["EIP-3198"] THEN "london"
                   ELSE IF eips["EIP-2718"] THEN "berlin"
                   ELSE IF eips["EIP-1344"] THEN "istanbul"
                   ELSE "unknown")

\* C24: a signer whose balance is below 0.01 ETH never has a deployment
\* transaction sent by a deployment script.
C24_NoDeploymentBelowMinBalance ==
  (auditor \in DeployScripts /\ balance < MinDeployBalance) => ~txSent

\* C25: a run of MFEVMainnetDeployer whose deployment succeeded ends with the
\* report file written and deploymentInfo returned.
C25_MainnetReportSaved ==
  (auditor = "MFEVMainnetDeployer" /\ contractDeployment = "deployed"
     /\ pc \in {"done", "raised"})
    => (written /\ returned = "deploymentInfo" /\ pc = "done")

\* C26: once CoreAuditor has generated its recommendations, "Chain meets all
\* production requirements" is among them exactly when at least 8 RPC
\* methods and at least 5 EIPs are supported, finality is stable and the
\* chain id is not 97.
C26_MeetsProductionRequirements ==
  (auditor = "CoreAuditor" /\ pc \in {"printReport", "saveReport", "done"})
    => ("meetsProductionRequirements" \in statements
          <=> /\ rpcCompatibility.supported >= CoreReadyRpcMethods
              /\ Cardinality({k \in DOMAIN eips : eips[k]}) >= CoreReadyEips
              /\ finality = "stable"
              /\ chainInfoChainId # BscTestnetChainId)

\* C27: a report of the comprehensive test says "fully compatible" or "ready
\* for production deployment" only when some contract test result was
\* collected, all of them are true (score 100), and no upgrade is recommended.
C27_ReadyOnlyWhenAllTestsPassed ==
  (/\ auditor = "ComprehensiveSmartContractTest"
   /\ written
   /\ statements \cap {"fullyCompatible", "readyForProduction"} # {})
  => /\ testResults # EmptyMap
     /\ \A k \in DOMAIN testResults : testResults[k]
     /\ compatibilityScore = 100
     /\ "upgradeToShanghai" \notin statements

C29_EnvFileUpdated ==
  (auditor = "select-chain" /\ selectedChain \in DOMAIN CHAINS) =>
    LET c == CHAINS[selectedChain]
        settings == {"RPC_URL=", "CHAIN_ID=", "GAS_PRICE=", "GAS_LIMIT=",
                     "NETWORK_NAME=", "NETWORK_TYPE="}
        value == [p \in settings |->
                   CASE p = "RPC_URL=" -> <<c.rpcUrl>>
                     [] p = "CHAIN_ID=" -> NumberText(c.chainId)
                     [] p = "GAS_PRICE=" -> NumberText(c.gasPrice)
                     [] p = "GAS_LIMIT=" -> NumberText(c.gasLimit)
                     [] p = "NETWORK_NAME=" ->
                          [i \in DOMAIN c.name |-> IF c.name[i] = " " THEN "_" ELSE c.name[i]]
                     [] p = "NETWORK_TYPE=" ->
                          IF \E i \in DOMAIN c.name : c.name[i] = "Testnet"
                          THEN <<"testnet">> ELSE <<"mainnet">>]
        Other(line) == line.prefix \notin settings
    IN  /\ \A p \in settings :
             /\ Cardinality({i \in DOMAIN envFile : envFile[i].prefix = p}) = 1
             /\ \A i \in DOMAIN envFile : envFile[i].prefix = p => envFile[i].rest = value[p]
        /\ SelectSeq(envFile, Other) = SelectSeq(envContent, Other)

\* the file that was read held an old RPC_URL line, a line of another setting
\* and an old NETWORK_TYPE line, and the second chain was written over it
C29_OldSettingsReplaced ==
  /\ auditor = "select-chain"
  /\ selectedChain = "2"
  /\ Len(envContent) = 3
  /\ envContent[1].prefix = "RPC_URL="
  /\ envContent[2].prefix = "PRIVATE_KEY="
  /\ envContent[3].prefix = "NETWORK_TYPE="
  /\ Len(envFile) = 7
  /\ envFile[1] = envContent[2]

\* C30: compareChains tests every configured chain in turn: an error while one
\* chain is tested is recorded as the error entry of that chain alone, the
\* entries of the other chains stay as they are, the loop goes on to the chains
\* that remain, and the comparison report is written whatever failed.
C30_ChainErrorKeptToItsChain ==
  /\ []((auditor = "compareChains") =>
          /\ pc # "raised"
          /\ (pc \in {"summary", "done"}) =>
               DOMAIN comparison = {Chains[i] : i \in DOMAIN Chains}
          /\ (pc = "done") => written)
  /\ [][(auditor = "compareChains") =>
          /\ \A name \in DOMAIN comparison :
               name \in DOMAIN comparison' /\ comparison'[name] = comparison[name]
          /\ DOMAIN comparison' \subseteq
               DOMAIN comparison \cup {Chains[i] : i \in {ChainsDone + 1} \cap DOMAIN Chains}
       ]_vars

\* the first chain failed, the second was tested after it and the report of
\* the comparison was written
C30_SecondChainTestedAfterError ==
  /\ auditor = "compareChains"
  /\ pc = "done"
  /\ written
  /\ comparison = Put(Put(EmptyMap, Chains[1], "error"), Chains[2], "tested")

====
